---- MODULE Spec2Model ----
(***************************************************************************)
(* Synchronization core of integracao-sankhya-rastreadores.                *)
(*                                                                         *)
(* Two generations of the orchestrator live in the repository and both are *)
(* modelled here, each under its own specification:                        *)
(*   SpecApp  the single loop startApp (app.js) over the functions of      *)
(*            services/sankhya.service.js;                                 *)
(*   Spec     the job cycles run() of jobs/atualcargo.job.js and           *)
(*            jobs/sitrax.job.js over job.scheduler.js,                    *)
(*            sankhya.processor.js and sankhya.api.js.                     *)
(* The destination tables are shared by the two specifications.            *)
(***************************************************************************)
EXTENDS Integers, Sequences, FiniteSets, TLC

(***************************************************************************)
(* Bounds of the model.                                                    *)
(***************************************************************************)
MaxTime == 2
MaxBatch == 2
MaxPrior == 1
MaxRows == 4
MaxFetches == 1
MaxJobBatch == 1
MaxRetryLimit == 2
MaxClock == 3
MaxLogins == 3
MaxCallers == 2

VARIABLES
  \* destination store and configuration (shared)
  AD_LOCATCAR,            \* rows of the vehicle history table, in NUMREG order
  contingencyUrl,         \* TRUE iff SANKHYA_CONTINGENCY_URL is configured
  \* app.js (startApp) state
  atualcargoToken,        \* TRUE iff a token is held
  sankhyaSessionId,       \* TRUE iff a JSessionID is held
  cachedVehiclePositions, \* NoCache or Cached(batch)
  currentSankhyaUrl,      \* "PRIMARY" or "CONTINGENCY"
  primaryLoginAttempts,
  appPc,                  \* position of the loop of startApp
  appError,               \* class of the error travelling to a catch
  vehicleMap,             \* result of getSankhyaVehicleCodes in this cycle
  lastTimestamps,         \* result of getLastRecordedTimestamps in this cycle
  recordsToSave,          \* records handed to DatasetSP.save in this cycle
  fetches,                \* successful upstream fetches so far (bounded)
  \* destination store and configuration of the jobs
  AD_LOCATISC,            \* rows of the tag history table, in NUMREG order
  sankhyaRetryLimit,      \* appConfig.sankhyaRetryLimit
  enabled,                \* the jobs whose loop index.js starts
  \* jobs/atualcargo.job.js, jobs/sitrax.job.js, sankhya/sankhya.api.js
  token,                  \* TRUE iff the Atualcargo job holds a token
  state,                  \* per job: cache, sankhyaUrl, primaryLoginAttempts
  jsessionid,             \* TRUE iff sankhya.api.js holds a JSessionID
  apiClient,              \* base URL of the axios instance of sankhya.api.js
  status,                 \* per job: state reported to the status manager
  pc,                     \* per job: position in the loop and in run()
  jobError,               \* per job: class of the error travelling to the catch
  proc,                   \* per job: locals of processPositions
  sent,                   \* per job: requests issued in the current cycle
  last,                   \* per job: how the previous cycle ended
  timers,                 \* per job: calls of setTimeout(loop, ...) that have not fired
  nextRun,                \* per job: nextRun of the status record: Null, 1 (the
                          \* first run, Date.now() + 1000) or 2 (Date.now() + intervalMs)
  \* service.js (startService) state
  serviceJsessionid,      \* TRUE iff service.js holds a JSessionID
  serviceSankhyaUrl,      \* currentSankhyaUrl of service.js: "PRIMARY",
                          \* "CONTINGENCY" or NullUrl (the unset contingencyUrl)
  servicePc,              \* position in mainServiceLoop
  serviceError,           \* class of the error travelling to the catch
  allPositions,           \* positions fetched in this cycle
  serviceFetches,         \* successful upstream fetches so far (bounded)
  \* sankhya.api.js and ensureAtualcargoToken at the grain of their awaits
  clock,                  \* Date.now()
  atualcargoJob,          \* token (held or not) and tokenTimestamp (0: null)
  extract,                \* step 1 of run of the Atualcargo job: its position,
                          \* the instant it began, whether it dropped a token
  sankhyaApi,             \* jsessionid (0: null, n: the session login n
                          \* obtained), loginPromise (0: null, n: login n), apiClient
  logins,                 \* calls of performLogin: issued so far, pending
  callers                 \* per caller of makeRequest: position, baseUrl, the
                          \* login awaited, the sessions its posts carried, and
                          \* the result of its last call that returned

appVars == << atualcargoToken, sankhyaSessionId, cachedVehiclePositions,
              currentSankhyaUrl, primaryLoginAttempts, appPc, appError,
              vehicleMap, lastTimestamps, recordsToSave, fetches >>

jobVars == << AD_LOCATISC, sankhyaRetryLimit, enabled, token, state, jsessionid,
              apiClient, status, nextRun, pc, jobError, proc, sent, last,
              timers >>

serviceVars == << serviceJsessionid, serviceSankhyaUrl, servicePc, serviceError,
                  allPositions, serviceFetches >>

sessionVars == << clock, atualcargoJob, extract, sankhyaApi, logins, callers >>

vars == << AD_LOCATCAR, contingencyUrl, appVars, jobVars, serviceVars, sessionVars >>

(***************************************************************************)
(* Values.                                                                 *)
(***************************************************************************)
\* JS null, as returned by the parse helpers on a non-string input
Null == -1
\* getTime() of an Invalid Date
NaN == -2

\* an absent cache (null) and a cache holding a batch (an array, maybe empty)
NoCache == << >>
Cached(batch) == << batch >>

\* source date strings: "YYYY-MM-DD HH:mm:ss" of instant t, a string that is
\* no date, and a value that is no string at all
ApiDate(t) == << "api", t >>
BadDate == << "bad" >>
NullDate == << "null" >>
SourceDates == {NullDate, BadDate} \cup {ApiDate(t) : t \in 1..MaxTime}

\* destination display string "DD/MM/YYYY HH:mm:ss" and query-result string
\* "DDMMYYYY HH:mm:ss" of instant t
SankhyaDate(t) == << "br", t >>
QueryDate(t) == << "qry", t >>

\* plates the upstream may report: two registered vehicles and one that the
\* destination does not know
Plates == {"P1", "P2", "PX"}

\* TGFVEI: PLACA -> CODVEICULO
TGFVEI == [p \in {"P1", "P2"} |-> IF p = "P1" THEN 1 ELSE 2]

\* pos.ignition as the upstream may send it: "ON", "OFF", or no value
Ignitions == {"ON", "OFF", ""}

\* the ignition does not decide which records are saved: the batches of the
\* cycle specifications carry one value, IgnitionBatches below all of them
Positions == [plate : Plates, date : SourceDates, ignition : {"ON"}]

RECURSIVE SeqsUpTo(_, _)
SeqsUpTo(S, n) ==
  IF n = 0 THEN {<< >>}
  ELSE LET shorter == SeqsUpTo(S, n - 1)
       IN shorter \cup {Append(s, x) : s \in {q \in shorter : Len(q) = n - 1}, x \in S}

\* a batch whose only position carries no plate
NoPlateBatch == << [plate |-> "", date |-> ApiDate(1), ignition |-> "ON"] >>

Batches == {b \in SeqsUpTo(Positions, MaxBatch) : Len(b) > 0} \cup {NoPlateBatch}

\* rows that earlier runs of the service left in AD_LOCATCAR
PriorRows ==
  {[CODVEICULO |-> TGFVEI[p], DATHOR |-> t, PLACA |-> p, IGNIT |-> "S",
    date |-> ApiDate(t), ignition |-> "ON"] :
     p \in DOMAIN TGFVEI, t \in 1..MaxTime}

PriorTables == SeqsUpTo(PriorRows, MaxPrior)

Range(s) == {s[i] : i \in DOMAIN s}

(***************************************************************************)
(* utils/helpers.js                                                        *)
(***************************************************************************)
\* new Date(apiDate.replace(' ', 'T')): null only when replace throws
parseAtualcargoDate(apiDate) ==
  IF apiDate = NullDate THEN Null
  ELSE IF apiDate[1] = "api" THEN apiDate[2]
  ELSE NaN

\* "DDMMYYYY HH:mm:ss" -> Date
parseSankhyaQueryDate(sankhyaDate) ==
  IF sankhyaDate[1] = "qry" THEN sankhyaDate[2] ELSE NaN

\* "YYYY-MM-DD HH:mm:ss" -> "DD/MM/YYYY HH:mm:ss"; the current time when the
\* input cannot be split
formatSankhyaDate(apiDate, now) ==
  IF apiDate[1] = "api" THEN SankhyaDate(apiDate[2]) ELSE SankhyaDate(now)

(***************************************************************************)
(* services/sankhya.service.js                                             *)
(***************************************************************************)
\* the row of highest NUMREG per CODVEICULO, as the query string of its DATHOR
LastRowIndex(table, cod) ==
  LET idx == {i \in DOMAIN table : table[i].CODVEICULO = cod}
  IN CHOOSE i \in idx : \A k \in idx : k <= i

getLastRecordedTimestamps(table) ==
  LET cods == {table[i].CODVEICULO : i \in DOMAIN table}
  IN [cod \in cods |->
        parseSankhyaQueryDate(QueryDate(table[LastRowIndex(table, cod)].DATHOR))]

\* [...new Set(positions.map(p => p.plate).filter(p => p))]
PlatesOf(positions) == {positions[i].plate : i \in DOMAIN positions} \ {""}

getSankhyaVehicleCodes(plates) ==
  [p \in plates \cap DOMAIN TGFVEI |-> TGFVEI[p]]

\* newPositionDate.getTime() > lastSavedDate.getTime()
IsLaterMut(newTime, lastTime) ==
  newTime # NaN /\ lastTime # NaN /\ newTime >= lastTime

IsLater(newTime, lastTime) ==
  newTime # NaN /\ lastTime # NaN /\ newTime > lastTime

\* the inner test of the loop of savePositionsToSankhya
ShouldSave(pos, vmap, lastMap) ==
  /\ pos.plate \in DOMAIN vmap
  /\ LET newPositionDate == parseAtualcargoDate(pos.date)
     IN /\ newPositionDate # Null
        /\ \/ vmap[pos.plate] \notin DOMAIN lastMap
           \/ IsLater(newPositionDate, lastMap[vmap[pos.plate]])

\* (pos.ignition === 'ON') ? 'S' : 'N'
ignitSankhyaCopied(ignition) == IF ignition = "" THEN "N" ELSE "S"

ignitSankhya(ignition) == IF ignition = "ON" THEN "S" ELSE "N"

RECURSIVE BuildRecords(_, _, _, _)
BuildRecords(positions, vmap, lastMap, now) ==
  IF positions = << >> THEN << >>
  ELSE LET pos == Head(positions)
           rest == BuildRecords(Tail(positions), vmap, lastMap, now)
       IN IF ShouldSave(pos, vmap, lastMap)
          THEN << [CODVEICULO |-> vmap[pos.plate],
                   DATHOR |-> formatSankhyaDate(pos.date, now),
                   PLACA |-> pos.plate,
                   IGNIT |-> ignitSankhya(pos.ignition),
                   date |-> pos.date,
                   ignition |-> pos.ignition] >> \o rest
          ELSE rest

\* DatasetSP.save: an unconditional append, DATHOR stored as an instant
RowOf(record) ==
  [CODVEICULO |-> record.CODVEICULO, DATHOR |-> record.DATHOR[2],
   PLACA |-> record.PLACA, IGNIT |-> record.IGNIT, date |-> record.date,
   ignition |-> record.ignition]

RECURSIVE DatasetSave(_, _)
DatasetSave(table, records) ==
  IF records = << >> THEN table
  ELSE DatasetSave(Append(table, RowOf(Head(records))), Tail(records))

(***************************************************************************)
(* app.js: startApp and its steps.                                         *)
(***************************************************************************)
MAX_PRIMARY_ATTEMPTS == 2

\* error classes as the catch of startApp tells them apart
UpstreamErrors == {"AtualcargoTokenError", "AtualcargoError"}

\* the records a mapper hands to the jobs; the registered tags of AD_CADISCA
Jobs == {"Atualcargo", "Sitrax"}

AD_CADISCA == [n \in {"I1"} |-> 1]

StdIdentifiers == [vehicle |-> {"P1"}, isca |-> DOMAIN AD_CADISCA]

\* the cycles of the jobs are followed over positions of one instant
StdPositions ==
  {[type |-> "vehicle", identifier |-> id, date |-> ApiDate(1)] : id \in StdIdentifiers.vehicle}
  \cup {[type |-> "isca", identifier |-> id, date |-> ApiDate(1)] : id \in StdIdentifiers.isca}

StandardBatches == SeqsUpTo(StdPositions, MaxJobBatch)

\* createJobStateManager: the state object of a job
JobState == [cache |-> NoCache, sankhyaUrl |-> "PRIMARY", primaryLoginAttempts |-> 0]

\* locals of one call of processPositions, before it starts; wrote keeps the
\* kinds whose insert returned, queried keeps
\* the two tables as the queries of the call found them
NoProc ==
  [sankhyaUrl |-> "none", positions |-> << >>, vehicleMap |-> << >>, iscaMap |-> << >>,
   lastVehicleHistory |-> << >>, lastIscaHistory |-> << >>,
   newVehicleRecords |-> << >>, newIscaRecords |-> << >>, failed |-> "none",
   unauthorized |-> FALSE, queried |-> << >>, wrote |-> {}]

\* nothing is known of a cycle before the first one
NoCycle ==
  [outcome |-> "none", cache |-> NoCache, sankhyaUrl |-> "PRIMARY", streak |-> 0,
   filtered |-> << >>, wrote |-> {}]

\* module state of the jobs and of sankhya.api.js when index.js has loaded them
JobsLoaded(started, limits) ==
  /\ AD_LOCATISC = << >>
  /\ sankhyaRetryLimit \in limits
  /\ enabled \in started
  /\ token = FALSE
  /\ state = [j \in Jobs |-> JobState]
  /\ jsessionid = FALSE
  /\ apiClient = "PRIMARY"
  /\ status = [j \in Jobs |-> "idle"]
  /\ nextRun = [j \in Jobs |-> IF j \in enabled THEN 1 ELSE Null]
  /\ pc = [j \in Jobs |-> IF j \in enabled THEN "scheduled" ELSE "off"]
  /\ jobError = [j \in Jobs |-> "none"]
  /\ proc = [j \in Jobs |-> NoProc]
  /\ sent = [j \in Jobs |-> {}]
  /\ last = [j \in Jobs |-> NoCycle]
  /\ timers = [j \in Jobs |-> IF j \in enabled THEN 1 ELSE 0]

\* module state of app.js before startApp runs
AppLoaded ==
  /\ atualcargoToken = FALSE
  /\ sankhyaSessionId = FALSE
  /\ cachedVehiclePositions = NoCache
  /\ currentSankhyaUrl = "PRIMARY"
  /\ primaryLoginAttempts = 0
  /\ appPc = "runAtualcargoStep"
  /\ appError = "none"
  /\ vehicleMap = << >>
  /\ lastTimestamps = << >>
  /\ recordsToSave = << >>
  /\ fetches = 0

\* module state of service.js before startService runs
ServiceLoaded ==
  /\ serviceJsessionid = FALSE
  /\ serviceSankhyaUrl = "PRIMARY"
  /\ servicePc = "mainServiceLoop"
  /\ serviceError = "none"
  /\ allPositions = << >>
  /\ serviceFetches = 0

\* a caller of makeRequest that is not in a call
NoCall == [pc |-> "idle", baseUrl |-> "PRIMARY", awaits |-> 0, posts |-> << >>,
           result |-> "none"]

Callers == 1..MaxCallers

\* module state of atualcargo.job.js and sankhya.api.js before a job runs
SessionLoaded ==
  /\ clock = 1
  /\ atualcargoJob = [token |-> FALSE, tokenTimestamp |-> 0]
  /\ extract = [pc |-> "idle", began |-> 0, dropped |-> FALSE]
  /\ sankhyaApi = [jsessionid |-> 0, loginPromise |-> 0, apiClient |-> "PRIMARY"]
  /\ logins = [issued |-> 0, pending |-> {}]
  /\ callers = [c \in Callers |-> NoCall]

InitApp ==
  /\ AD_LOCATCAR = << >>
  /\ contingencyUrl \in BOOLEAN
  /\ JobsLoaded({{}}, {MAX_PRIMARY_ATTEMPTS})
  /\ AppLoaded
  /\ ServiceLoaded
  /\ SessionLoaded

Throw(error) ==
  /\ appError' = error
  /\ appPc' = "catch"

\* runAtualcargoStep, up to the call of ensureAtualcargoToken
RunAtualcargoStep ==
  /\ appPc = "runAtualcargoStep"
  /\ appPc' = IF cachedVehiclePositions # NoCache
              THEN "runSankhyaStep" ELSE "ensureAtualcargoToken"
  /\ vehicleMap' = << >>
  /\ lastTimestamps' = << >>
  /\ recordsToSave' = << >>
  /\ UNCHANGED << AD_LOCATCAR, contingencyUrl, atualcargoToken, sankhyaSessionId,
                  cachedVehiclePositions, currentSankhyaUrl, primaryLoginAttempts,
                  appError, fetches >>
  /\ UNCHANGED << jobVars, serviceVars, sessionVars >>

AppEnsureAtualcargoToken ==
  /\ appPc = "ensureAtualcargoToken"
  /\ \/ /\ atualcargoToken
        /\ appPc' = "getAtualcargoPositions"
        /\ UNCHANGED << atualcargoToken, appError >>
     \/ /\ ~atualcargoToken
        /\ atualcargoToken' = TRUE
        /\ appPc' = "getAtualcargoPositions"
        /\ UNCHANGED appError
     \/ /\ ~atualcargoToken
        /\ \E error \in UpstreamErrors : Throw(error)
        /\ UNCHANGED atualcargoToken
  /\ UNCHANGED << AD_LOCATCAR, contingencyUrl, sankhyaSessionId,
                  cachedVehiclePositions, currentSankhyaUrl, primaryLoginAttempts,
                  vehicleMap, lastTimestamps, recordsToSave, fetches >>
  /\ UNCHANGED << jobVars, serviceVars, sessionVars >>

GetAtualcargoPositions ==
  /\ appPc = "getAtualcargoPositions"
  /\ \/ /\ fetches < MaxFetches
        /\ \E batch \in Batches : cachedVehiclePositions' = Cached(batch)
        /\ fetches' = fetches + 1
        /\ appPc' = "runSankhyaStep"
        /\ UNCHANGED appError
     \/ /\ appPc' = "runSankhyaStep"
        /\ UNCHANGED << cachedVehiclePositions, fetches, appError >>
     \/ /\ \E error \in UpstreamErrors : Throw(error)
        /\ UNCHANGED << cachedVehiclePositions, fetches >>
  /\ UNCHANGED << AD_LOCATCAR, contingencyUrl, atualcargoToken, sankhyaSessionId,
                  currentSankhyaUrl, primaryLoginAttempts,
                  vehicleMap, lastTimestamps, recordsToSave >>
  /\ UNCHANGED << jobVars, serviceVars, sessionVars >>

\* runSankhyaStep, up to its try block
RunSankhyaStep ==
  /\ appPc = "runSankhyaStep"
  /\ IF cachedVehiclePositions = NoCache
     THEN /\ appPc' = "cycleDone"
          /\ UNCHANGED cachedVehiclePositions
     ELSE IF PlatesOf(cachedVehiclePositions[1]) = {}
     THEN /\ cachedVehiclePositions' = NoCache
          /\ appPc' = "cycleDone"
     ELSE /\ appPc' = "ensureSankhyaSession"
          /\ UNCHANGED cachedVehiclePositions
  /\ UNCHANGED << AD_LOCATCAR, contingencyUrl, atualcargoToken, sankhyaSessionId,
                  currentSankhyaUrl, primaryLoginAttempts, appError,
                  vehicleMap, lastTimestamps, recordsToSave, fetches >>
  /\ UNCHANGED << jobVars, serviceVars, sessionVars >>

\* the catch of runSankhyaStep: drop the session on a token error, rethrow
SankhyaStepFails(error) ==
  /\ sankhyaSessionId' = IF error = "SankhyaTokenError" THEN FALSE ELSE sankhyaSessionId
  /\ Throw(error)

SankhyaErrors == {"SankhyaTokenError", "SankhyaError"}

EnsureSankhyaSession ==
  /\ appPc = "ensureSankhyaSession"
  /\ \/ /\ sankhyaSessionId
        /\ appPc' = "getSankhyaVehicleCodes"
        /\ UNCHANGED << sankhyaSessionId, primaryLoginAttempts, appError >>
     \/ /\ ~sankhyaSessionId
        /\ sankhyaSessionId' = TRUE
        /\ primaryLoginAttempts' =
             IF currentSankhyaUrl = "PRIMARY" THEN 0 ELSE primaryLoginAttempts
        /\ appPc' = "getSankhyaVehicleCodes"
        /\ UNCHANGED appError
     \/ /\ ~sankhyaSessionId
        /\ \E error \in SankhyaErrors : SankhyaStepFails(error)
        /\ UNCHANGED primaryLoginAttempts
  /\ UNCHANGED << AD_LOCATCAR, contingencyUrl, atualcargoToken,
                  cachedVehiclePositions, currentSankhyaUrl,
                  vehicleMap, lastTimestamps, recordsToSave, fetches >>
  /\ UNCHANGED << jobVars, serviceVars, sessionVars >>

GetSankhyaVehicleCodes ==
  /\ appPc = "getSankhyaVehicleCodes"
  /\ \/ /\ vehicleMap' = getSankhyaVehicleCodes(PlatesOf(cachedVehiclePositions[1]))
        /\ appPc' = "getLastRecordedTimestamps"
        /\ UNCHANGED << sankhyaSessionId, appError >>
     \/ /\ \E error \in SankhyaErrors : SankhyaStepFails(error)
        /\ UNCHANGED vehicleMap
  /\ UNCHANGED << AD_LOCATCAR, contingencyUrl, atualcargoToken,
                  cachedVehiclePositions, currentSankhyaUrl, primaryLoginAttempts,
                  lastTimestamps, recordsToSave, fetches >>
  /\ UNCHANGED << jobVars, serviceVars, sessionVars >>

GetLastRecordedTimestamps ==
  /\ appPc = "getLastRecordedTimestamps"
  /\ \/ /\ lastTimestamps' = getLastRecordedTimestamps(AD_LOCATCAR)
        /\ appPc' = "savePositionsToSankhya"
        /\ UNCHANGED << sankhyaSessionId, appError >>
     \/ /\ \E error \in SankhyaErrors : SankhyaStepFails(error)
        /\ UNCHANGED lastTimestamps
  /\ UNCHANGED << AD_LOCATCAR, contingencyUrl, atualcargoToken,
                  cachedVehiclePositions, currentSankhyaUrl, primaryLoginAttempts,
                  vehicleMap, recordsToSave, fetches >>
  /\ UNCHANGED << jobVars, serviceVars, sessionVars >>

\* savePositionsToSankhya and, when it returns, the success end of
\* runSankhyaStep; a request that fails may still have been applied
SavePositionsToSankhya ==
  /\ appPc = "savePositionsToSankhya"
  /\ \E now \in 1..MaxTime :
       LET records == BuildRecords(cachedVehiclePositions[1], vehicleMap,
                                   lastTimestamps, now)
       IN /\ recordsToSave' = records
          /\ Len(AD_LOCATCAR) + Len(records) <= MaxRows
          /\ \/ /\ AD_LOCATCAR' = DatasetSave(AD_LOCATCAR, records)
                /\ cachedVehiclePositions' = NoCache
                /\ appPc' = "cycleDone"
                /\ UNCHANGED << sankhyaSessionId, appError >>
             \/ /\ records # << >>
                /\ SankhyaStepFails("SankhyaTokenError")
                /\ UNCHANGED << AD_LOCATCAR, cachedVehiclePositions >>
             \/ /\ records # << >>
                /\ SankhyaStepFails("SankhyaError")
                /\ AD_LOCATCAR' \in {AD_LOCATCAR, DatasetSave(AD_LOCATCAR, records)}
                /\ UNCHANGED cachedVehiclePositions
  /\ UNCHANGED << contingencyUrl, atualcargoToken, currentSankhyaUrl,
                  primaryLoginAttempts, vehicleMap, lastTimestamps, fetches >>
  /\ UNCHANGED << jobVars, serviceVars, sessionVars >>

\* the catch of startApp, with the wait that follows it
StartAppCatch ==
  /\ appPc = "catch"
  /\ appPc' = "runAtualcargoStep"
  /\ appError' = "none"
  /\ IF appError = "AtualcargoTokenError"
     THEN /\ atualcargoToken' = FALSE
          /\ cachedVehiclePositions' = NoCache
          /\ UNCHANGED << sankhyaSessionId, currentSankhyaUrl, primaryLoginAttempts >>
     ELSE IF appError = "SankhyaTokenError"
     THEN /\ sankhyaSessionId' = FALSE
          /\ IF contingencyUrl /\ currentSankhyaUrl = "CONTINGENCY"
             THEN /\ currentSankhyaUrl' = "PRIMARY"
                  /\ primaryLoginAttempts' = 0
             ELSE UNCHANGED << currentSankhyaUrl, primaryLoginAttempts >>
          /\ UNCHANGED << atualcargoToken, cachedVehiclePositions >>
     ELSE IF appError = "AtualcargoError"
     THEN /\ atualcargoToken' = FALSE
          /\ sankhyaSessionId' = FALSE
          /\ cachedVehiclePositions' = NoCache
          /\ UNCHANGED << currentSankhyaUrl, primaryLoginAttempts >>
     ELSE /\ sankhyaSessionId' = FALSE
          /\ IF contingencyUrl /\ currentSankhyaUrl = "PRIMARY"
             THEN IF primaryLoginAttempts + 1 >= MAX_PRIMARY_ATTEMPTS
                  THEN /\ currentSankhyaUrl' = "CONTINGENCY"
                       /\ primaryLoginAttempts' = 0
                  ELSE /\ primaryLoginAttempts' = primaryLoginAttempts + 1
                       /\ UNCHANGED currentSankhyaUrl
             ELSE UNCHANGED << currentSankhyaUrl, primaryLoginAttempts >>
          /\ UNCHANGED << atualcargoToken, cachedVehiclePositions >>
  /\ UNCHANGED << AD_LOCATCAR, contingencyUrl, vehicleMap, lastTimestamps,
                  recordsToSave, fetches >>
  /\ UNCHANGED << jobVars, serviceVars, sessionVars >>

\* the wait between two cycles after a cycle without error
WaitBetweenCycles ==
  /\ appPc = "cycleDone"
  /\ appPc' = "runAtualcargoStep"
  /\ UNCHANGED << AD_LOCATCAR, contingencyUrl, atualcargoToken, sankhyaSessionId,
                  cachedVehiclePositions, currentSankhyaUrl, primaryLoginAttempts,
                  appError, vehicleMap, lastTimestamps, recordsToSave, fetches >>
  /\ UNCHANGED << jobVars, serviceVars, sessionVars >>



NextApp ==
  \/ RunAtualcargoStep
  \/ AppEnsureAtualcargoToken
  \/ GetAtualcargoPositions
  \/ RunSankhyaStep
  \/ EnsureSankhyaSession
  \/ GetSankhyaVehicleCodes
  \/ GetLastRecordedTimestamps
  \/ SavePositionsToSankhya
  \/ StartAppCatch
  \/ WaitBetweenCycles

SpecApp == InitApp /\ [][NextApp]_vars

(***************************************************************************)
(* One commit attempt of runSankhyaStep, on any cached batch and any prior *)
(* content of AD_LOCATCAR.                                                 *)
(***************************************************************************)
InitSave ==
  /\ AD_LOCATCAR \in PriorTables
  /\ contingencyUrl = FALSE
  /\ JobsLoaded({{}}, {MAX_PRIMARY_ATTEMPTS})
  /\ atualcargoToken = TRUE
  /\ sankhyaSessionId = FALSE
  /\ \E batch \in Batches : cachedVehiclePositions = Cached(batch)
  /\ currentSankhyaUrl = "PRIMARY"
  /\ primaryLoginAttempts = 0
  /\ appPc = "runSankhyaStep"
  /\ appError = "none"
  /\ vehicleMap = << >>
  /\ lastTimestamps = << >>
  /\ recordsToSave = << >>
  /\ fetches = 0
  /\ ServiceLoaded
  /\ SessionLoaded

NextSave ==
  \/ RunSankhyaStep
  \/ EnsureSankhyaSession
  \/ GetSankhyaVehicleCodes
  \/ GetLastRecordedTimestamps
  \/ SavePositionsToSankhya

SpecSave == InitSave /\ [][NextSave]_vars

(***************************************************************************)
(* The same commit attempt on batches of registered vehicles whose         *)
(* positions carry every ignition value.                                   *)
(***************************************************************************)
IgnitionBatches ==
  {b \in SeqsUpTo([plate : DOMAIN TGFVEI, date : {ApiDate(MaxTime)},
                    ignition : Ignitions], MaxBatch) : Len(b) > 0}

InitIgnition ==
  /\ AD_LOCATCAR \in PriorTables
  /\ contingencyUrl = FALSE
  /\ JobsLoaded({{}}, {MAX_PRIMARY_ATTEMPTS})
  /\ atualcargoToken = TRUE
  /\ sankhyaSessionId = FALSE
  /\ \E batch \in IgnitionBatches : cachedVehiclePositions = Cached(batch)
  /\ currentSankhyaUrl = "PRIMARY"
  /\ primaryLoginAttempts = 0
  /\ appPc = "runSankhyaStep"
  /\ appError = "none"
  /\ vehicleMap = << >>
  /\ lastTimestamps = << >>
  /\ recordsToSave = << >>
  /\ fetches = 0
  /\ ServiceLoaded
  /\ SessionLoaded

SpecIgnition == InitIgnition /\ [][NextSave]_vars

(***************************************************************************)
(* service.js: startService, mainServiceLoop and handleLogin over          *)
(* services/sankhya.service.js.                                            *)
(***************************************************************************)
\* the value of a URL that is not configured
NullUrl == "null"

\* the ways loginSankhya(baseUrl) ends: the unset contingency URL gives no
\* server to answer, so the request can only fail
loginSankhya(baseUrl) ==
  IF baseUrl = NullUrl THEN {"SankhyaError"}
  ELSE {"ok", "SankhyaTokenError", "SankhyaError"}

\* config.sankhya.contingencyUrl
contingencyUrlOfService == IF contingencyUrl THEN "CONTINGENCY" ELSE NullUrl

\* the URL handleLogin moves to after a failure that is not a rejection
otherUrl(url) == IF url = "PRIMARY" THEN contingencyUrlOfService ELSE "PRIMARY"

ServiceThrow(error) ==
  /\ serviceError' = error
  /\ servicePc' = "catch"

\* mainServiceLoop, step 1: the test of jsessionid
MainServiceLoop ==
  /\ servicePc = "mainServiceLoop"
  /\ servicePc' = IF serviceJsessionid THEN "getAllPositions" ELSE "handleLogin"
  /\ UNCHANGED << AD_LOCATCAR, contingencyUrl, serviceJsessionid, serviceSankhyaUrl,
                  serviceError, allPositions, serviceFetches, appVars, jobVars, sessionVars >>

\* handleLogin: a login on currentSankhyaUrl; after a failure that is not a
\* rejection, the URL is changed and one more login is tried on it
HandleLogin ==
  /\ servicePc = "handleLogin"
  /\ \E first \in loginSankhya(serviceSankhyaUrl) :
       IF first = "ok"
       THEN /\ serviceJsessionid' = TRUE
            /\ servicePc' = "getAllPositions"
            /\ UNCHANGED << serviceSankhyaUrl, serviceError >>
       ELSE IF first = "SankhyaTokenError"
       THEN /\ ServiceThrow(first)
            /\ UNCHANGED << serviceJsessionid, serviceSankhyaUrl >>
       ELSE /\ serviceSankhyaUrl' = otherUrl(serviceSankhyaUrl)
            /\ \E second \in loginSankhya(otherUrl(serviceSankhyaUrl)) :
                 IF second = "ok"
                 THEN /\ serviceJsessionid' = TRUE
                      /\ servicePc' = "getAllPositions"
                      /\ UNCHANGED serviceError
                 ELSE /\ ServiceThrow(second)
                      /\ UNCHANGED serviceJsessionid
  /\ UNCHANGED << AD_LOCATCAR, contingencyUrl, allPositions, serviceFetches,
                  appVars, jobVars, sessionVars >>

\* getAllPositions and separatePositions: no plate drawn starts with ISCA,
\* so every position is a vehicle position
GetAllPositions ==
  /\ servicePc = "getAllPositions"
  /\ \/ /\ serviceFetches < MaxFetches
        /\ \E positions \in Batches \cup {<< >>} : allPositions' = positions
        /\ serviceFetches' = serviceFetches + 1
        /\ servicePc' = "process"
        /\ UNCHANGED serviceError
     \/ /\ ServiceThrow("UpstreamError")
        /\ UNCHANGED << allPositions, serviceFetches >>
  /\ UNCHANGED << AD_LOCATCAR, contingencyUrl, serviceJsessionid, serviceSankhyaUrl,
                  appVars, jobVars, sessionVars >>

\* Promise.all of processVehicles and processBaits (which returns at once on
\* no positions): processVehicles rethrows a SankhyaTokenError and swallows
\* any other error; a save that fails may still have been applied
Process ==
  /\ servicePc = "process"
  /\ LET plates == PlatesOf(allPositions)
         Saved(now) ==
           DatasetSave(AD_LOCATCAR,
                       BuildRecords(allPositions, getSankhyaVehicleCodes(plates),
                                    getLastRecordedTimestamps(AD_LOCATCAR), now))
     IN IF plates = {}
        THEN /\ servicePc' = "delay"
             /\ UNCHANGED << AD_LOCATCAR, serviceError >>
        ELSE \E now \in 1..MaxTime :
               /\ Len(Saved(now)) <= MaxRows
               /\ \/ /\ AD_LOCATCAR' = Saved(now)
                     /\ servicePc' = "delay"
                     /\ UNCHANGED serviceError
                  \/ /\ AD_LOCATCAR' \in {AD_LOCATCAR, Saved(now)}
                     /\ servicePc' = "delay"
                     /\ UNCHANGED serviceError
                  \/ /\ ServiceThrow("SankhyaTokenError")
                     /\ UNCHANGED AD_LOCATCAR
  /\ UNCHANGED << contingencyUrl, serviceJsessionid, serviceSankhyaUrl, allPositions,
                  serviceFetches, appVars, jobVars, sessionVars >>

\* the catch of mainServiceLoop
ServiceCatch ==
  /\ servicePc = "catch"
  /\ serviceJsessionid' = IF serviceError = "SankhyaTokenError" THEN FALSE
                          ELSE serviceJsessionid
  /\ serviceError' = "none"
  /\ servicePc' = "delay"
  /\ UNCHANGED << AD_LOCATCAR, contingencyUrl, serviceSankhyaUrl, allPositions,
                  serviceFetches, appVars, jobVars, sessionVars >>

\* the wait of config.service.intervalSeconds and the next turn of startService
ServiceDelay ==
  /\ servicePc = "delay"
  /\ servicePc' = "mainServiceLoop"
  /\ UNCHANGED << AD_LOCATCAR, contingencyUrl, serviceJsessionid, serviceSankhyaUrl,
                  serviceError, allPositions, serviceFetches, appVars, jobVars, sessionVars >>

InitService ==
  /\ AD_LOCATCAR = << >>
  /\ contingencyUrl \in BOOLEAN
  /\ JobsLoaded({{}}, {MAX_PRIMARY_ATTEMPTS})
  /\ AppLoaded
  /\ ServiceLoaded
  /\ SessionLoaded

NextService ==
  \/ MainServiceLoop
  \/ HandleLogin
  \/ GetAllPositions
  \/ Process
  \/ ServiceCatch
  \/ ServiceDelay

SpecService == InitService /\ [][NextService]_vars

\* ---------------------------------------------------------------------------
\* sankhya/sankhya.api.js: the session shared by the jobs
\* ---------------------------------------------------------------------------

Req(kind, to) == [kind |-> kind, to |-> to]

\* performLogin(baseUrl): the client is rebuilt on baseUrl before the login is
\* posted; the login succeeds, is rejected (SankhyaTokenError) or fails on the
\* network (Error, session cleared)
performLogin(baseUrl) ==
  {[result |-> r, jsessionid |-> (r = "ok"), apiClient |-> baseUrl,
    sent |-> {Req("login", baseUrl)}, applied |-> FALSE, unauthorized |-> FALSE] :
     r \in {"ok", "SankhyaTokenError", "SankhyaError"}}

\* answers of the server to apiClient.post: status 1, status 3 'Nao autorizado.',
\* another status, a timeout (the server may have executed a write), and a
\* failure whose message holds 'connect'
Responses(kind) ==
  {[response |-> r, applied |-> (r = "ok")] : r \in {"ok", "unauthorized", "error", "connect"}}
  \cup {[response |-> "timeout", applied |-> a] :
          a \in IF kind = "write" THEN BOOLEAN ELSE {FALSE}}

\* the way makeRequest ends when a post issued after l is answered resp and no
\* re-login follows: a timeout is rethrown before the session is touched, a
\* 'connect' failure clears the session
Settle(l, kind, resp) ==
  [result |-> IF resp.response = "ok" THEN "ok" ELSE "SankhyaError",
   jsessionid |-> (resp.response # "connect"),
   apiClient |-> l.apiClient,
   sent |-> l.sent \cup {Req(kind, l.apiClient)},
   applied |-> resp.applied,
   unauthorized |-> FALSE]

\* makeRequest(serviceName, requestBody, baseUrl), from the session and client
\* it finds: every way the call ends; unauthorized marks the call that fails
\* because the post and, after the new login, the resent post were both
\* answered 'Nao autorizado.'
makeRequest(session, client, baseUrl, kind) ==
  LET held == [result |-> "ok", jsessionid |-> TRUE, apiClient |-> client,
               sent |-> {}, applied |-> FALSE, unauthorized |-> FALSE]
      logged == IF session THEN {held} ELSE performLogin(baseUrl)
      Relogin(l) ==
        {[r EXCEPT !.sent = l.sent \cup {Req(kind, l.apiClient)} \cup r.sent] :
           r \in performLogin(baseUrl)}
      Resent(r, again) ==
        [Settle(r, kind, again) EXCEPT !.unauthorized = (again.response = "unauthorized")]
      Posted(l) ==
        UNION {IF resp.response = "unauthorized"
               THEN UNION {IF r.result # "ok"
                           THEN {r}
                           ELSE {Resent(r, again) : again \in Responses(kind)} :
                             r \in Relogin(l)}
               ELSE {Settle(l, kind, resp)} :
                 resp \in Responses(kind)}
  IN UNION {IF l.result # "ok" THEN {l} ELSE Posted(l) : l \in logged}

\* ---------------------------------------------------------------------------
\* sankhya/sankhya.processor.js: what the queries return and the filter
\* ---------------------------------------------------------------------------

Identifiers(positions, type) ==
  {positions[i].identifier : i \in {k \in DOMAIN positions : positions[k].type = type}}

\* a lookup that answers for every plate asked
vehicleMapOfAll(plates) == [p \in plates |-> IF p \in DOMAIN TGFVEI THEN TGFVEI[p] ELSE 0]

\* rows of TGFVEI and of AD_CADISCA for the identifiers, as a Map
vehicleMapOf(plates) == [p \in plates \cap DOMAIN TGFVEI |-> TGFVEI[p]]

iscaMapOf(numbers) == [n \in numbers \cap DOMAIN AD_CADISCA |-> AD_CADISCA[n]]

\* a history query that returns no row
lastHistoryOfNone(table, key) == << >>

\* the row of greatest NUMREG of every key, as a Map from the key to its DATHOR
lastHistoryOf(table, key) ==
  LET keys == {table[i][key] : i \in DOMAIN table}
      Newest(k) == CHOOSE i \in DOMAIN table :
                     /\ table[i][key] = k
                     /\ \A n \in DOMAIN table : table[n][key] = k => n <= i
  IN [k \in keys |-> QueryDate(table[Newest(k)].DATHOR)]

\* a comparison that also takes the instant of the last row as newer
isNewerOrSame(date, lastDathor) ==
  /\ date[1] = "api"
  /\ \/ lastDathor = "undefined"
     \/ /\ parseSankhyaQueryDate(lastDathor) # NaN
        /\ date[2] >= parseSankhyaQueryDate(lastDathor)

\* utils/dateTime.js isNewer(date, lastDathor): lastDathor is "undefined" when
\* the Map has no entry
isNewer(date, lastDathor) ==
  /\ date[1] = "api"
  /\ \/ lastDathor = "undefined"
     \/ /\ parseSankhyaQueryDate(lastDathor) # NaN
        /\ date[2] > parseSankhyaQueryDate(lastDathor)

\* the loops of steps 3 and 4: the records of one type that are registered
\* and newer than the last row of their key
newRecords(positions, type, map, history) ==
  LET Keep(p) == /\ p.type = type
                 /\ p.identifier \in DOMAIN map
                 /\ isNewer(p.date, IF map[p.identifier] \in DOMAIN history
                                    THEN history[map[p.identifier]]
                                    ELSE "undefined")
      kept == SelectSeq(positions, Keep)
  IN [i \in DOMAIN kept |-> [key |-> map[kept[i].identifier],
                              insertValue |-> kept[i].identifier,
                              date |-> kept[i].date]]

\* utils/dateTime.js formatForSankhyaInsert(date)
formatForSankhyaInsert(date) == SankhyaDate(date[2])

\* the rows DatasetSP.save appends for the records of one request
vehicleRows(records) ==
  [i \in DOMAIN records |->
     [CODVEICULO |-> records[i].key,
      DATHOR |-> formatForSankhyaInsert(records[i].date)[2],
      PLACA |-> records[i].insertValue,
      date |-> records[i].date]]

iscaRows(records) ==
  [i \in DOMAIN records |->
     [SEQUENCIA |-> records[i].key,
      DATHOR |-> formatForSankhyaInsert(records[i].date)[2],
      ISCA |-> records[i].insertValue,
      date |-> records[i].date]]

\* ---------------------------------------------------------------------------
\* jobs/job.scheduler.js: the state manager of a job
\* ---------------------------------------------------------------------------

clearCacheMut(s) == s

clearCache(s) == [s EXCEPT !.cache = NoCache]

LimitReachedMut(attempts, limit) == attempts > limit

LimitReached(attempts, limit) == attempts >= limit

handleSankhyaError(s) ==
  IF contingencyUrl
  THEN IF s.sankhyaUrl = "PRIMARY"
       THEN IF LimitReached(s.primaryLoginAttempts + 1, sankhyaRetryLimit)
            THEN [s EXCEPT !.sankhyaUrl = "CONTINGENCY", !.primaryLoginAttempts = 0]
            ELSE [s EXCEPT !.primaryLoginAttempts = @ + 1]
       ELSE [s EXCEPT !.sankhyaUrl = "PRIMARY", !.primaryLoginAttempts = 0]
  ELSE s

handleSankhyaSuccess(s) ==
  IF s.sankhyaUrl = "PRIMARY" THEN [s EXCEPT !.primaryLoginAttempts = 0] ELSE s

\* ---------------------------------------------------------------------------
\* jobs/atualcargo.job.js and jobs/sitrax.job.js under createJobLoop
\* ---------------------------------------------------------------------------

configuration == << contingencyUrl, sankhyaRetryLimit, enabled >>

\* the errors of the connectors: a rejected token (AtualcargoTokenError) and an
\* Error whose message names the provider; the errors of sankhya.api.js are a
\* SankhyaTokenError and an Error whose message does not name a provider
UpstreamErrorsOf(j) ==
  IF j = "Atualcargo" THEN {"AtualcargoTokenError", "UpstreamError"} ELSE {"UpstreamError"}

\* history of a cycle that ends with outcome, taken before the handler of the
\* outcome acts; cache is the cache a failed cycle held; streak counts the consecutive cycles that ended with a network
\* failure of the destination while the job was on the primary URL
EndOfCycle(j, outcome) ==
  [outcome |-> outcome,
   cache |-> IF outcome \in {"ok", "idle"} THEN NoCache ELSE state[j].cache,
   sankhyaUrl |-> state[j].sankhyaUrl,
   streak |-> IF outcome = "SankhyaError" /\ state[j].sankhyaUrl = "PRIMARY"
              THEN IF last[j].streak < sankhyaRetryLimit
                   THEN last[j].streak + 1 ELSE sankhyaRetryLimit
              ELSE 0,
   filtered |-> IF proc[j].queried = << >> THEN << >>
                ELSE << proc[j].queried, proc[j].newVehicleRecords,
                        proc[j].newIscaRecords >>,
   wrote |-> proc[j].wrote]

\* the place of loop where setTimeout(loop, intervalMs) is called: its
\* finally, whatever state the cycle reported
setsTimeoutAtStart(at, reported) == at \in {"loop", "finally"}

setsTimeoutUnlessError(at, reported) == at = "finally" /\ reported # "error"

setsTimeout(at, reported) == at = "finally"

\* the timers of job j after loop passed the place at
timersAfter(j, at, reported) ==
  [timers EXCEPT ![j] = IF setsTimeout(at, reported) THEN @ + 1 ELSE @]

\* the state run reports last in a cycle that ends with outcome: 'idle' before
\* each return, 'error' at the head of its catch
reportedNothingOnEmpty(outcome) ==
  IF outcome = "ok" THEN "idle" ELSE IF outcome = "idle" THEN "running" ELSE "error"

reportedNothingOnError(outcome) ==
  IF outcome \in {"ok", "idle"} THEN "idle" ELSE "running"

reported(outcome) == IF outcome \in {"ok", "idle"} THEN "idle" ELSE "error"

\* StatusManager.updateJobStatus: the record of the job is replaced; nextRun
\* is the timestamp passed only when the new state is 'idle'
updateJobStatusKeepsNextRun(j, st, nextRunTimestamp) ==
  /\ status' = [status EXCEPT ![j] = st]
  /\ nextRun' = [nextRun EXCEPT ![j] = nextRunTimestamp]

updateJobStatus(j, st, nextRunTimestamp) ==
  /\ status' = [status EXCEPT ![j] = st]
  /\ nextRun' = [nextRun EXCEPT ![j] = IF st # "idle" THEN Null ELSE nextRunTimestamp]

\* loop, up to the call of jobFunction
Loop(j) ==
  /\ pc[j] = "scheduled"
  /\ timers[j] > 0
  /\ timers' = [timersAfter(j, "loop", "running") EXCEPT ![j] = @ - 1]
  /\ updateJobStatus(j, "running", Null)
  /\ pc' = [pc EXCEPT ![j] = "run"]
  /\ sent' = [sent EXCEPT ![j] = {}]
  /\ proc' = [proc EXCEPT ![j] = NoProc]
  /\ UNCHANGED << AD_LOCATCAR, AD_LOCATISC, token, state, jsessionid, apiClient,
                  jobError, last, configuration, appVars, serviceVars,
                  sessionVars >>

\* run, step 1: the test of the cache
Run(j) ==
  /\ pc[j] = "run"
  /\ pc' = [pc EXCEPT ![j] = IF state[j].cache # NoCache THEN "load"
                             ELSE IF j = "Atualcargo" THEN "ensureAtualcargoToken"
                             ELSE "getPositions"]
  /\ UNCHANGED << AD_LOCATCAR, AD_LOCATISC, token, state, jsessionid, apiClient,
                  status, nextRun, jobError, proc, sent, last, timers, configuration, appVars, serviceVars,
                  sessionVars >>

\* ensureAtualcargoToken: a held token older than tokenExpirationMs is dropped,
\* then a missing token is requested
EnsureAtualcargoToken(j) ==
  /\ j = "Atualcargo"
  /\ pc[j] = "ensureAtualcargoToken"
  /\ \E expired \in BOOLEAN :
       IF token /\ ~expired
       THEN /\ pc' = [pc EXCEPT ![j] = "getPositions"]
            /\ UNCHANGED << token, jobError, sent >>
       ELSE /\ sent' = [sent EXCEPT ![j] = @ \cup {Req("login", "upstream")}]
            /\ \E outcome \in {"ok"} \cup UpstreamErrorsOf(j) :
                 IF outcome = "ok"
                 THEN /\ token' = TRUE
                      /\ pc' = [pc EXCEPT ![j] = "getPositions"]
                      /\ UNCHANGED jobError
                 ELSE /\ token' = FALSE
                      /\ jobError' = [jobError EXCEPT ![j] = outcome]
                      /\ pc' = [pc EXCEPT ![j] = "catch"]
  /\ UNCHANGED << AD_LOCATCAR, AD_LOCATISC, state, jsessionid, apiClient, status, nextRun,
                  proc, last, timers, configuration, appVars, serviceVars,
                  sessionVars >>

\* getAtualcargoPositions / getSitraxPositions and the mapper: nothing
\* received, a batch put in the cache, or an error of the connector
GetPositions(j) ==
  /\ pc[j] = "getPositions"
  /\ sent' = [sent EXCEPT ![j] = @ \cup {Req("fetch", "upstream")}]
  /\ \/ /\ updateJobStatus(j, reported("idle"), Null)
        /\ last' = [last EXCEPT ![j] = EndOfCycle(j, "idle")]
        /\ pc' = [pc EXCEPT ![j] = "finally"]
        /\ UNCHANGED << state, jobError >>
     \/ /\ \E standardData \in StandardBatches :
             state' = [state EXCEPT ![j].cache = Cached(standardData)]
        /\ pc' = [pc EXCEPT ![j] = "load"]
        /\ UNCHANGED << status, nextRun, last, jobError >>
     \/ /\ \E error \in UpstreamErrorsOf(j) :
             jobError' = [jobError EXCEPT ![j] = error]
        /\ pc' = [pc EXCEPT ![j] = "catch"]
        /\ UNCHANGED << state, status, nextRun, last >>
  /\ UNCHANGED << AD_LOCATCAR, AD_LOCATISC, token, jsessionid, apiClient,
                  proc, timers, configuration, appVars, serviceVars,
                  sessionVars >>

\* run, step 2, up to the call of processPositions with state.sankhyaUrl
Load(j) ==
  /\ pc[j] = "load"
  /\ IF state[j].cache = NoCache \/ state[j].cache = Cached(<< >>)
     THEN /\ updateJobStatus(j, reported("idle"), Null)
          /\ last' = [last EXCEPT ![j] = EndOfCycle(j, "idle")]
          /\ pc' = [pc EXCEPT ![j] = "finally"]
          /\ UNCHANGED proc
     ELSE /\ proc' = [proc EXCEPT ![j] = [NoProc EXCEPT !.positions = state[j].cache[1],
                                                        !.sankhyaUrl = state[j].sankhyaUrl]]
          /\ pc' = [pc EXCEPT ![j] = "getVehiclesByPlate"]
          /\ UNCHANGED << status, nextRun, last >>
  /\ UNCHANGED << AD_LOCATCAR, AD_LOCATISC, token, state, jsessionid, apiClient,
                  jobError, sent, timers, configuration, appVars, serviceVars,
                  sessionVars >>

\* effect of one call of makeRequest that ended as o
Requested(j, o) ==
  /\ jsessionid' = o.jsessionid
  /\ apiClient' = o.apiClient
  /\ sent' = [sent EXCEPT ![j] = @ \cup o.sent]

\* a function of sankhya.api.js that posts whatever it is given
NoRequestPosts(j, here, next) ==
  /\ pc[j] = here
  /\ pc' = [pc EXCEPT ![j] = next]
  /\ sent' = [sent EXCEPT ![j] = @ \cup {Req("write", apiClient)}]
  /\ UNCHANGED << AD_LOCATCAR, AD_LOCATISC, token, state, jsessionid, apiClient,
                  status, nextRun, jobError, proc, last, timers, configuration, appVars,
                  serviceVars, sessionVars >>

\* a function of sankhya.api.js that returns without a request
NoRequest(j, here, next) ==
  /\ pc[j] = here
  /\ pc' = [pc EXCEPT ![j] = next]
  /\ UNCHANGED << AD_LOCATCAR, AD_LOCATISC, token, state, jsessionid, apiClient,
                  status, nextRun, jobError, proc, sent, last, timers, configuration, appVars, serviceVars,
                  sessionVars >>

\* one of the four queries of step 2 of processPositions: its result is kept
\* in a local, or its error leaves processPositions
Query(j, here, next, local, rows) ==
  /\ pc[j] = here
  /\ \E o \in makeRequest(jsessionid, apiClient, proc[j].sankhyaUrl, "query") :
       /\ Requested(j, o)
       /\ IF o.result = "ok"
          THEN /\ proc' = [proc EXCEPT ![j][local] = rows]
               /\ pc' = [pc EXCEPT ![j] = next]
               /\ UNCHANGED jobError
          ELSE /\ jobError' = [jobError EXCEPT ![j] = o.result]
               /\ pc' = [pc EXCEPT ![j] = "catch"]
               /\ UNCHANGED proc
  /\ UNCHANGED << AD_LOCATCAR, AD_LOCATISC, token, state, status, nextRun, last,
                  timers, configuration, appVars, serviceVars,
                  sessionVars >>

GetVehiclesByPlate(j) ==
  LET plates == Identifiers(proc[j].positions, "vehicle")
  IN IF plates = {}
     THEN NoRequest(j, "getVehiclesByPlate", "getIscasByNum")
     ELSE Query(j, "getVehiclesByPlate", "getIscasByNum", "vehicleMap", vehicleMapOf(plates))

GetIscasByNum(j) ==
  LET iscaNumbers == Identifiers(proc[j].positions, "isca")
  IN IF iscaNumbers = {}
     THEN NoRequest(j, "getIscasByNum", "getLastVehicleHistory")
     ELSE Query(j, "getIscasByNum", "getLastVehicleHistory", "iscaMap", iscaMapOf(iscaNumbers))

GetLastVehicleHistory(j) ==
  /\ pc[j] = "getLastVehicleHistory"
  /\ Query(j, "getLastVehicleHistory", "getLastIscaHistory", "lastVehicleHistory",
           lastHistoryOf(AD_LOCATCAR, "CODVEICULO"))

GetLastIscaHistory(j) ==
  /\ pc[j] = "getLastIscaHistory"
  /\ Query(j, "getLastIscaHistory", "filter", "lastIscaHistory",
           lastHistoryOf(AD_LOCATISC, "SEQUENCIA"))

\* the locals after steps 3 and 4 of processPositions
filtered(j) ==
  [proc EXCEPT
     ![j].newVehicleRecords = newRecords(proc[j].positions, "vehicle",
                                         proc[j].vehicleMap, proc[j].lastVehicleHistory),
     ![j].newIscaRecords = newRecords(proc[j].positions, "isca",
                                      proc[j].iscaMap, proc[j].lastIscaHistory),
     ![j].queried = << AD_LOCATCAR, AD_LOCATISC >>]

\* a filter that takes the first position out of the array it is given
FilterNewRecordsInPlace(j) ==
  /\ pc[j] = "filter"
  /\ proc' = filtered(j)
  /\ pc' = [pc EXCEPT ![j] = "insertVehicleHistory"]
  /\ state' = [state EXCEPT ![j].cache = Cached(Tail(proc[j].positions))]
  /\ UNCHANGED << AD_LOCATCAR, AD_LOCATISC, token, jsessionid, apiClient,
                  status, nextRun, jobError, sent, last, timers, configuration, appVars,
                  serviceVars, sessionVars >>

\* steps 3 and 4 of processPositions
FilterNewRecords(j) ==
  /\ pc[j] = "filter"
  /\ proc' = filtered(j)
  /\ pc' = [pc EXCEPT ![j] = "insertVehicleHistory"]
  /\ UNCHANGED << AD_LOCATCAR, AD_LOCATISC, token, state, jsessionid, apiClient,
                  status, nextRun, jobError, sent, last, timers, configuration, appVars, serviceVars,
                  sessionVars >>

\* step 5: the two inserts are started together, so the second is issued
\* whatever becomes of the first
InsertVehicleHistory(j) ==
  LET records == proc[j].newVehicleRecords
  IN IF Len(records) = 0
     THEN NoRequest(j, "insertVehicleHistory", "insertIscaHistory")
     ELSE /\ pc[j] = "insertVehicleHistory"
          /\ Len(AD_LOCATCAR) + Len(records) <= MaxRows
          /\ \E o \in makeRequest(jsessionid, apiClient, proc[j].sankhyaUrl, "write") :
               /\ Requested(j, o)
               /\ AD_LOCATCAR' = IF o.applied THEN AD_LOCATCAR \o vehicleRows(records)
                                 ELSE AD_LOCATCAR
               /\ proc' = [proc EXCEPT ![j].failed = IF o.result = "ok" THEN "none"
                                                     ELSE o.result,
                                        ![j].unauthorized = o.unauthorized,
                                        ![j].wrote = IF o.result = "ok"
                                                     THEN {"vehicle"} ELSE {}]
          /\ pc' = [pc EXCEPT ![j] = "insertIscaHistory"]
          /\ UNCHANGED << AD_LOCATISC, token, state, status, nextRun, jobError, last,
                          timers, configuration, appVars, serviceVars,
                  sessionVars >>

\* the second insert and the end of Promise.all: the first rejection, of
\* either insert, leaves processPositions; proc.unauthorized then tells
\* whether the write that was rejected had been answered 'Nao autorizado.'
\* before and after its new login
InsertIscaHistory(j) ==
  LET records == proc[j].newIscaRecords
      first == [error |-> proc[j].failed, unauthorized |-> proc[j].unauthorized]
      Ends(rejections, returned) ==
        IF rejections = {}
        THEN /\ pc' = [pc EXCEPT ![j] = "processed"]
             /\ proc' = [proc EXCEPT ![j].wrote = @ \cup returned]
             /\ UNCHANGED jobError
        ELSE /\ \E rejection \in rejections :
                  /\ jobError' = [jobError EXCEPT ![j] = rejection.error]
                  /\ proc' = [proc EXCEPT ![j].unauthorized = rejection.unauthorized,
                                           ![j].wrote = @ \cup returned]
             /\ pc' = [pc EXCEPT ![j] = "catch"]
  IN /\ pc[j] = "insertIscaHistory"
     /\ IF Len(records) = 0
        THEN /\ Ends({r \in {first} : r.error # "none"}, {})
             /\ UNCHANGED << AD_LOCATISC, jsessionid, apiClient, sent >>
        ELSE /\ Len(AD_LOCATISC) + Len(records) <= MaxRows
             /\ \E o \in makeRequest(jsessionid, apiClient, proc[j].sankhyaUrl, "write") :
                  /\ Requested(j, o)
                  /\ AD_LOCATISC' = IF o.applied THEN AD_LOCATISC \o iscaRows(records)
                                    ELSE AD_LOCATISC
                  /\ Ends({r \in {first, [error |-> o.result,
                                          unauthorized |-> o.unauthorized]} :
                             r.error \notin {"none", "ok"}},
                          IF o.result = "ok" THEN {"isca"} ELSE {})
     /\ UNCHANGED << AD_LOCATCAR, token, state, status, nextRun, last,
                     timers, configuration, appVars, serviceVars,
                  sessionVars >>

\* run, after processPositions returned
Processed(j) ==
  /\ pc[j] = "processed"
  /\ state' = [state EXCEPT ![j] = clearCache(handleSankhyaSuccess(state[j]))]
  /\ updateJobStatus(j, reported("ok"), Null)
  /\ last' = [last EXCEPT ![j] = EndOfCycle(j, "ok")]
  /\ pc' = [pc EXCEPT ![j] = "finally"]
  /\ UNCHANGED << AD_LOCATCAR, AD_LOCATISC, token, jsessionid, apiClient,
                  jobError, proc, sent, timers, configuration, appVars, serviceVars,
                  sessionVars >>

\* the branch the catch of run takes
catchBranchNoSession(j, error) ==
  IF j = "Atualcargo" /\ error = "AtualcargoTokenError" THEN "upstream"
  ELSE IF error = "SankhyaTokenError" THEN "upstream"
  ELSE IF error = "UpstreamError" THEN "upstream"
  ELSE "network"

catchBranchNoProvider(j, error) ==
  IF j = "Atualcargo" /\ error = "AtualcargoTokenError" THEN "upstream"
  ELSE IF error = "SankhyaTokenError" THEN "session"
  ELSE "network"

catchBranchSessionAsNetwork(j, error) ==
  IF j = "Atualcargo" /\ error = "AtualcargoTokenError" THEN "upstream"
  ELSE IF error = "UpstreamError" THEN "upstream"
  ELSE "network"

catchBranch(j, error) ==
  IF j = "Atualcargo" /\ error = "AtualcargoTokenError" THEN "upstream"
  ELSE IF error = "SankhyaTokenError" THEN "session"
  ELSE IF error = "UpstreamError" THEN "upstream"
  ELSE "network"

\* the catch of run, with the wait of jobRetryDelayMs
Catch(j) ==
  /\ pc[j] = "catch"
  /\ updateJobStatus(j, reported(jobError[j]), Null)
  /\ LET branch == catchBranch(j, jobError[j])
     IN /\ token' = IF branch = "upstream" /\ j = "Atualcargo" THEN FALSE ELSE token
        /\ state' = [state EXCEPT ![j] =
                       IF branch = "upstream" THEN clearCache(state[j])
                       ELSE IF branch = "network" THEN handleSankhyaError(state[j])
                       ELSE state[j]]
  /\ last' = [last EXCEPT ![j] = EndOfCycle(j, jobError[j])]
  /\ jobError' = [jobError EXCEPT ![j] = "none"]
  /\ pc' = [pc EXCEPT ![j] = "finally"]
  /\ UNCHANGED << AD_LOCATCAR, AD_LOCATISC, jsessionid, apiClient, proc, sent,
                  timers, configuration, appVars, serviceVars,
                  sessionVars >>

\* loop, the finally: the state the job reported is published with the time
\* of the next run, and the next run is scheduled
Finally(j) ==
  /\ pc[j] = "finally"
  /\ updateJobStatus(j, status[j], 2)
  /\ timers' = timersAfter(j, "finally", status[j])
  /\ pc' = [pc EXCEPT ![j] = "scheduled"]
  /\ UNCHANGED << AD_LOCATCAR, AD_LOCATISC, token, state, jsessionid, apiClient,
                  jobError, proc, sent, last, configuration, appVars, serviceVars,
                  sessionVars >>

\* index.js starts the loop of the enabled job; the contingency URL is
\* configured or not, the retry limit is any value up to MaxRetryLimit
Init ==
  /\ AD_LOCATCAR = << >>
  /\ contingencyUrl \in BOOLEAN
  /\ JobsLoaded({{j} : j \in Jobs}, 1..MaxRetryLimit)
  /\ AppLoaded
  /\ ServiceLoaded
  /\ SessionLoaded

Next ==
  \E j \in Jobs :
    \/ Loop(j)
    \/ Run(j)
    \/ EnsureAtualcargoToken(j)
    \/ GetPositions(j)
    \/ Load(j)
    \/ GetVehiclesByPlate(j)
    \/ GetIscasByNum(j)
    \/ GetLastVehicleHistory(j)
    \/ GetLastIscaHistory(j)
    \/ FilterNewRecords(j)
    \/ InsertVehicleHistory(j)
    \/ InsertIscaHistory(j)
    \/ Processed(j)
    \/ Catch(j)
    \/ Finally(j)

Spec == Init /\ [][Next]_vars

\* appConfig.sankhyaRetryLimit when SANKHYA_RETRY_LIMIT_BEFORE_SWAP is unset
sankhyaRetryLimitDefault == 2

InitLive ==
  /\ AD_LOCATCAR = << >>
  /\ contingencyUrl \in BOOLEAN
  /\ JobsLoaded({{j} : j \in Jobs}, {sankhyaRetryLimitDefault})
  /\ AppLoaded
  /\ ServiceLoaded
  /\ SessionLoaded

\* the timers of Node fire, and every request a cycle awaits is answered or
\* times out, so the job that runs takes its next step
SpecLive == InitLive /\ [][Next]_vars /\ WF_vars(Next)

(***************************************************************************)
(* One batch through processPositions: the Sitrax job has just put a batch  *)
(* in its cache; the batch may hold vehicles and tags, several instants and *)
(* a plate that TGFVEI does not hold, and AD_LOCATCAR may hold rows of      *)
(* earlier runs. A failed cycle is followed by the retry on the cache.      *)
(***************************************************************************)
MaxMixedBatch == 2

\* positions of a registered plate at several instants, of a plate that
\* TGFVEI does not hold, and of a registered tag
MixedPositions ==
  {[type |-> "vehicle", identifier |-> "P1", date |-> ApiDate(t)] : t \in 1..MaxTime}
  \cup {[type |-> "vehicle", identifier |-> "PX", date |-> ApiDate(1)]}
  \cup {[type |-> "isca", identifier |-> id, date |-> ApiDate(1)] : id \in DOMAIN AD_CADISCA}

\* AD_LOCATCAR empty or with the row an earlier run left for the plate
MixedPrior == {<< >>} \cup {<< row >> : row \in {r \in PriorRows : r.PLACA = "P1"}}

MixedBatches == {b \in SeqsUpTo(MixedPositions, MaxMixedBatch) : Len(b) > 0}

InitProcess ==
  /\ AD_LOCATCAR \in MixedPrior
  /\ contingencyUrl = FALSE
  /\ AD_LOCATISC = << >>
  /\ sankhyaRetryLimit = sankhyaRetryLimitDefault
  /\ enabled = {"Sitrax"}
  /\ token = FALSE
  /\ \E standardData \in MixedBatches :
       state = [j \in Jobs |-> IF j \in enabled
                                THEN [JobState EXCEPT !.cache = Cached(standardData)]
                                ELSE JobState]
  /\ jsessionid = FALSE
  /\ apiClient = "PRIMARY"
  /\ status = [j \in Jobs |-> IF j \in enabled THEN "running" ELSE "idle"]
  /\ nextRun = [j \in Jobs |-> Null]
  /\ pc = [j \in Jobs |-> IF j \in enabled THEN "load" ELSE "off"]
  /\ jobError = [j \in Jobs |-> "none"]
  /\ proc = [j \in Jobs |-> NoProc]
  /\ sent = [j \in Jobs |-> IF j \in enabled THEN {Req("fetch", "upstream")} ELSE {}]
  /\ last = [j \in Jobs |-> NoCycle]
  /\ timers = [j \in Jobs |-> 0]
  /\ AppLoaded
  /\ ServiceLoaded
  /\ SessionLoaded

NextProcess ==
  \E j \in Jobs :
    \/ Loop(j)
    \/ Run(j)
    \/ Load(j)
    \/ GetVehiclesByPlate(j)
    \/ GetIscasByNum(j)
    \/ GetLastVehicleHistory(j)
    \/ GetLastIscaHistory(j)
    \/ FilterNewRecords(j)
    \/ InsertVehicleHistory(j)
    \/ InsertIscaHistory(j)
    \/ Processed(j)
    \/ Catch(j)
    \/ Finally(j)

SpecProcess == InitProcess /\ [][NextProcess]_vars

(***************************************************************************)
(* The two jobs side by side. run is taken as one step, from the call of   *)
(* jobFunction to the finally of loop; its steps are those of Spec.        *)
(***************************************************************************)
\* the token after the catch of run took branch
tokenAfterCatchOfAny(j, branch, held) == IF branch = "upstream" THEN FALSE ELSE held

tokenAfterCatch(j, branch, held) ==
  IF branch = "upstream" /\ j = "Atualcargo" THEN FALSE ELSE held

\* what the catch of run leaves when error reaches it
Caught(j, error, s, held, tables) ==
  LET branch == catchBranch(j, error)
  IN [token |-> tokenAfterCatch(j, branch, held),
      state |-> IF branch = "upstream" THEN clearCache(s)
                ELSE IF branch = "network" THEN handleSankhyaError(s)
                ELSE s,
      status |-> "error",
      jsessionid |-> tables.jsessionid, apiClient |-> tables.apiClient,
      AD_LOCATCAR |-> tables.AD_LOCATCAR, AD_LOCATISC |-> tables.AD_LOCATISC]

\* what run leaves when it returns
Returns(s, held, tables) ==
  [token |-> held, state |-> s, status |-> "idle",
   jsessionid |-> tables.jsessionid, apiClient |-> tables.apiClient,
   AD_LOCATCAR |-> tables.AD_LOCATCAR, AD_LOCATISC |-> tables.AD_LOCATISC]

\* processPositions(positions, ..., baseUrl) as a whole: the queries of step
\* 2 (one call of makeRequest stands for them), the filter, and the two
\* inserts of step 5; result is "ok" or the error that leaves it
processPositions(positions, baseUrl) ==
  LET untouched(o) == [result |-> o.result, jsessionid |-> o.jsessionid,
                       apiClient |-> o.apiClient, AD_LOCATCAR |-> AD_LOCATCAR,
                       AD_LOCATISC |-> AD_LOCATISC]
      vehicles == newRecords(positions, "vehicle",
                             vehicleMapOf(Identifiers(positions, "vehicle")),
                             lastHistoryOf(AD_LOCATCAR, "CODVEICULO"))
      iscas == newRecords(positions, "isca",
                          iscaMapOf(Identifiers(positions, "isca")),
                          lastHistoryOf(AD_LOCATISC, "SEQUENCIA"))
      Insert(o, records) ==
        IF Len(records) = 0
        THEN {[result |-> "ok", jsessionid |-> o.jsessionid, apiClient |-> o.apiClient,
               applied |-> FALSE]}
        ELSE makeRequest(o.jsessionid, o.apiClient, baseUrl, "write")
      Both(v, i) ==
        {[result |-> error,
          jsessionid |-> i.jsessionid, apiClient |-> i.apiClient,
          AD_LOCATCAR |-> IF v.applied THEN AD_LOCATCAR \o vehicleRows(vehicles)
                          ELSE AD_LOCATCAR,
          AD_LOCATISC |-> IF i.applied THEN AD_LOCATISC \o iscaRows(iscas)
                          ELSE AD_LOCATISC] :
           error \in IF {v.result, i.result} = {"ok"} THEN {"ok"}
                     ELSE {v.result, i.result} \ {"ok"}}
      Inserted(q) ==
        UNION {UNION {Both(v, i) : i \in Insert(v, iscas)} : v \in Insert(q, vehicles)}
  IN UNION {IF q.result # "ok" THEN {untouched(q)} ELSE Inserted(q) :
              q \in makeRequest(jsessionid, apiClient, baseUrl, "query")}

\* run of job j, from its first line to its return or the end of its catch
run(j) ==
  LET s == state[j]
      asIs == [jsessionid |-> jsessionid, apiClient |-> apiClient,
               AD_LOCATCAR |-> AD_LOCATCAR, AD_LOCATISC |-> AD_LOCATISC]
      held == IF j = "Atualcargo" /\ s.cache = NoCache THEN TRUE ELSE token
      Step2(cached) ==
        IF cached.cache = Cached(<< >>)
        THEN {Returns(cached, held, asIs)}
        ELSE {IF o.result = "ok"
              THEN Returns(clearCache(handleSankhyaSuccess(cached)), held, o)
              ELSE Caught(j, o.result, cached, held, o) :
                o \in processPositions(cached.cache[1], cached.sankhyaUrl)}
  IN IF s.cache # NoCache
     THEN Step2(s)
     ELSE {Caught(j, error, s, token, asIs) : error \in UpstreamErrorsOf(j)}
          \cup {Returns(s, held, asIs)}
          \cup UNION {Step2([s EXCEPT !.cache = Cached(standardData)]) :
                        standardData \in StandardBatches}

\* loop, from the return of jobFunction on: the state is published and the
\* next run is scheduled
RunOnce(j) ==
  /\ pc[j] = "run"
  /\ \E end \in run(j) :
       /\ token' = end.token
       /\ state' = [state EXCEPT ![j] = end.state]
       /\ updateJobStatus(j, end.status, 2)
       /\ jsessionid' = end.jsessionid
       /\ apiClient' = end.apiClient
       /\ AD_LOCATCAR' = end.AD_LOCATCAR
       /\ AD_LOCATISC' = end.AD_LOCATISC
       /\ timers' = timersAfter(j, "finally", end.status)
  /\ pc' = [pc EXCEPT ![j] = "scheduled"]
  /\ UNCHANGED << jobError, proc, sent, last, configuration, appVars, serviceVars,
                  sessionVars >>

\* index.js starts the loops of both jobs
InitJobs ==
  /\ AD_LOCATCAR = << >>
  /\ contingencyUrl \in BOOLEAN
  /\ JobsLoaded({Jobs}, 1..MaxRetryLimit)
  /\ AppLoaded
  /\ ServiceLoaded
  /\ SessionLoaded

NextJobs ==
  \E j \in Jobs :
    \/ Loop(j)
    \/ RunOnce(j)

SpecJobs == InitJobs /\ [][NextJobs]_vars

(***************************************************************************)
(* sankhya/sankhya.api.js and ensureAtualcargoToken of atualcargo.job.js   *)
(* at the grain of their awaits: several calls of makeRequest are open at  *)
(* once (the Promise.all of processPositions, the two jobs), and time      *)
(* passes between the cycles of the Atualcargo job.                        *)
(***************************************************************************)
\* jobsConfig.atualcargo.tokenExpirationMs, in ticks of the clock
tokenExpirationMs == 1

Urls == {"PRIMARY", "CONTINGENCY"}

\* tokenTimestamp && (now - tokenTimestamp > config.tokenExpirationMs)
tokenExpiredAlways(tokenTimestamp, now) == tokenTimestamp # 0

tokenExpiredNever(tokenTimestamp, now) == FALSE

tokenExpired(tokenTimestamp, now) ==
  tokenTimestamp # 0 /\ now - tokenTimestamp > tokenExpirationMs

\* time passes
Tick ==
  /\ clock < MaxClock
  /\ clock' = clock + 1
  /\ UNCHANGED << AD_LOCATCAR, contingencyUrl, atualcargoJob, extract, sankhyaApi,
                  logins, callers, appVars, jobVars, serviceVars >>

\* run with an empty cache, up to its first await: ensureAtualcargoToken
\* drops an expired token and either awaits loginAtualcargo or returns, and
\* then getAtualcargoPositions(token) is issued
ExtractBegins ==
  /\ extract.pc = "idle"
  /\ LET expired == tokenExpired(atualcargoJob.tokenTimestamp, clock)
         kept == IF expired THEN [token |-> FALSE, tokenTimestamp |-> 0]
                 ELSE atualcargoJob
     IN /\ atualcargoJob' = kept
        /\ extract' = [pc |-> IF kept.token THEN "getAtualcargoPositions"
                              ELSE "loginAtualcargo",
                       began |-> clock,
                       dropped |-> expired]
  /\ UNCHANGED << AD_LOCATCAR, contingencyUrl, clock, sankhyaApi, logins, callers,
                  appVars, jobVars, serviceVars >>

\* the catch of run for an error of the connector
CatchesUpstream ==
  /\ atualcargoJob' = [token |-> FALSE, tokenTimestamp |-> 0]
  /\ extract' = [extract EXCEPT !.pc = "idle"]

\* loginAtualcargo returns: the token is kept with Date.now() and the fetch
\* is issued, or the error goes to the catch of run
LoginAtualcargoReturns ==
  /\ extract.pc = "loginAtualcargo"
  /\ \/ /\ atualcargoJob' = [token |-> TRUE, tokenTimestamp |-> clock]
        /\ extract' = [extract EXCEPT !.pc = "getAtualcargoPositions"]
     \/ CatchesUpstream
  /\ UNCHANGED << AD_LOCATCAR, contingencyUrl, clock, sankhyaApi, logins, callers,
                  appVars, jobVars, serviceVars >>

\* getAtualcargoPositions returns: step 1 is over, or the error goes to the
\* catch of run
GetAtualcargoPositionsReturns ==
  /\ extract.pc = "getAtualcargoPositions"
  /\ \/ /\ extract' = [extract EXCEPT !.pc = "idle"]
        /\ UNCHANGED atualcargoJob
     \/ CatchesUpstream
  /\ UNCHANGED << AD_LOCATCAR, contingencyUrl, clock, sankhyaApi, logins, callers,
                  appVars, jobVars, serviceVars >>

\* login(baseUrl): the second test, a login in progress is awaited
joinsLoginNever(loginPromise) == FALSE

joinsLogin(loginPromise) == loginPromise # 0

\* login(baseUrl), up to its await: the login the caller awaits (0: none) and
\* what is left in the module; a new call of performLogin rebuilds the
\* client and posts the login
login(api, lg, baseUrl) ==
  IF api.jsessionid # 0 /\ api.loginPromise = 0
  THEN [awaits |-> 0, api |-> api, logins |-> lg]
  ELSE IF joinsLogin(api.loginPromise)
  THEN [awaits |-> api.loginPromise, api |-> api, logins |-> lg]
  ELSE LET n == lg.issued + 1
       IN [awaits |-> n,
           api |-> [api EXCEPT !.loginPromise = n, !.apiClient = baseUrl],
           logins |-> [issued |-> n, pending |-> lg.pending \cup {n}]]

\* the post that is answered 'Nao autorizado.' is sent again when it was the
\* first post of the request
retriesPostAgain(posts) == Len(posts) <= 2

retriesPost(posts) == Len(posts) = 1

\* makeRequest(serviceName, requestBody, baseUrl), up to its first await: the
\* login when no session is held, the post otherwise
MakeRequest(c) ==
  /\ callers[c].pc = "idle"
  /\ \E baseUrl \in Urls :
       IF sankhyaApi.jsessionid = 0
       THEN LET l == login(sankhyaApi, logins, baseUrl)
            IN /\ l.logins.issued <= MaxLogins
               /\ sankhyaApi' = l.api
               /\ logins' = l.logins
               /\ callers' = [callers EXCEPT ![c] =
                                [pc |-> "awaitLogin", baseUrl |-> baseUrl,
                                 awaits |-> l.awaits, posts |-> << >>,
                                 result |-> callers[c].result]]
       ELSE /\ callers' = [callers EXCEPT ![c] =
                             [pc |-> "posted", baseUrl |-> baseUrl, awaits |-> 0,
                              posts |-> << sankhyaApi.jsessionid >>,
                              result |-> callers[c].result]]
            /\ UNCHANGED << sankhyaApi, logins >>
  /\ UNCHANGED << AD_LOCATCAR, contingencyUrl, clock, atualcargoJob, extract,
                  appVars, jobVars, serviceVars >>

\* a caller whose makeRequest ends with result
Returned(caller, result) == [NoCall EXCEPT !.result = result]

\* a caller that posts with the session held
Posts(caller, session) ==
  [caller EXCEPT !.pc = "posted", !.awaits = 0, !.posts = Append(@, session)]

\* the module after performLogin n ended as outcome: the session is stored,
\* left as it was (rejected) or cleared (network); the finally clears
\* loginPromise
performLoginEndsPromiseKept(api, n, outcome) ==
  [api EXCEPT !.jsessionid = IF outcome = "ok" THEN n ELSE @,
              !.loginPromise = IF outcome = "ok" THEN 0 ELSE @]

performLoginEnds(api, n, outcome) ==
  [api EXCEPT !.jsessionid = IF outcome = "ok" THEN n
                             ELSE IF outcome = "SankhyaTokenError" THEN @
                             ELSE 0,
              !.loginPromise = 0]

\* performLogin n returns, and every caller that awaits the login goes on
\* before anything else runs
PerformLoginReturns(n) ==
  /\ n \in logins.pending
  /\ \E outcome \in {"ok", "SankhyaTokenError", "SankhyaError"} :
       LET session == performLoginEnds(sankhyaApi, n, outcome).jsessionid
       IN /\ sankhyaApi' = performLoginEnds(sankhyaApi, n, outcome)
          /\ callers' = [c \in Callers |->
                           IF callers[c].awaits # n THEN callers[c]
                           ELSE IF outcome = "ok" THEN Posts(callers[c], session)
                           ELSE Returned(callers[c], outcome)]
  /\ logins' = [logins EXCEPT !.pending = @ \ {n}]
  /\ UNCHANGED << AD_LOCATCAR, contingencyUrl, clock, atualcargoJob, extract,
                  appVars, jobVars, serviceVars >>

\* apiClient.post returns to makeRequest: status 1, status 3 'Nao
\* autorizado.' (the session is cleared and login is called, unless the post
\* was the resent one), another status, a timeout, or a failure whose
\* message holds 'connect' (the session is cleared)
PostReturns(c) ==
  /\ callers[c].pc = "posted"
  /\ \E response \in {"ok", "unauthorized", "error", "timeout", "connect"} :
       IF response = "unauthorized" /\ retriesPost(callers[c].posts)
       THEN LET l == login([sankhyaApi EXCEPT !.jsessionid = 0], logins,
                           callers[c].baseUrl)
            IN /\ l.logins.issued <= MaxLogins
               /\ sankhyaApi' = l.api
               /\ logins' = l.logins
               /\ callers' = [callers EXCEPT ![c].pc = "awaitLogin",
                                             ![c].awaits = l.awaits]
       ELSE /\ sankhyaApi' = IF response = "connect"
                             THEN [sankhyaApi EXCEPT !.jsessionid = 0]
                             ELSE sankhyaApi
            /\ callers' = [callers EXCEPT ![c] =
                             Returned(@, IF response = "ok" THEN "ok"
                                         ELSE "SankhyaError")]
            /\ UNCHANGED logins
  /\ UNCHANGED << AD_LOCATCAR, contingencyUrl, clock, atualcargoJob, extract,
                  appVars, jobVars, serviceVars >>

InitSession ==
  /\ AD_LOCATCAR = << >>
  /\ contingencyUrl = TRUE
  /\ JobsLoaded({{}}, {MAX_PRIMARY_ATTEMPTS})
  /\ AppLoaded
  /\ ServiceLoaded
  /\ SessionLoaded

\* the calls of makeRequest that are open at once
NextSession ==
  \/ \E c \in Callers : MakeRequest(c)
  \/ \E n \in 1..MaxLogins : PerformLoginReturns(n)
  \/ \E c \in Callers : PostReturns(c)

SpecSession == InitSession /\ [][NextSession]_vars

\* the two credentials side by side: step 1 of the Atualcargo job and the
\* requests of one caller
NextCredentials ==
  \/ Tick
  \/ ExtractBegins
  \/ LoginAtualcargoReturns
  \/ GetAtualcargoPositionsReturns
  \/ MakeRequest(1)
  \/ \E n \in 1..MaxLogins : PerformLoginReturns(n)
  \/ PostReturns(1)

SpecCredentials == InitSession /\ [][NextCredentials]_vars

(***************************************************************************)
(* C1: every record handed to the destination write belongs to an identity *)
(* without a last-committed timestamp in the map queried in this cycle, or *)
(* carries a valid instant strictly later than that timestamp.             *)
(***************************************************************************)
C1_OnlyNewerRecordsSaved ==
  \A i \in DOMAIN recordsToSave :
    LET r == recordsToSave[i]
    IN \/ r.CODVEICULO \notin DOMAIN lastTimestamps
       \/ /\ r.date[1] = "api"
          /\ r.date[2] > lastTimestamps[r.CODVEICULO]

\* a commit that went through with a record of an identity that had a prior
\* timestamp
C1_Witness ==
  /\ appPc = "cycleDone"
  /\ \E i \in DOMAIN recordsToSave :
       /\ recordsToSave[i].CODVEICULO \in DOMAIN lastTimestamps
       /\ \E k \in DOMAIN AD_LOCATCAR : AD_LOCATCAR[k] = RowOf(recordsToSave[i])

(***************************************************************************)
(* C2: AD_LOCATCAR never holds two rows of the same CODVEICULO with the    *)
(* same DATHOR (stated over the rows of records with a valid timestamp,    *)
(* which are enough to decide it).                                         *)
(***************************************************************************)
C2_NoDuplicateRows ==
  \A i, k \in DOMAIN AD_LOCATCAR :
    ( /\ i # k
      /\ AD_LOCATCAR[i].date[1] = "api"
      /\ AD_LOCATCAR[k].date[1] = "api" )
    => ~ ( /\ AD_LOCATCAR[i].CODVEICULO = AD_LOCATCAR[k].CODVEICULO
          /\ AD_LOCATCAR[i].DATHOR = AD_LOCATCAR[k].DATHOR )

(***************************************************************************)
(* C3: no row of AD_LOCATCAR comes from a record whose timestamp does not  *)
(* parse to a valid instant.                                               *)
(***************************************************************************)
C3_NoInvalidDateSaved ==
  /\ \A i \in DOMAIN recordsToSave : recordsToSave[i].date[1] = "api"
  /\ \A i \in DOMAIN AD_LOCATCAR : AD_LOCATCAR[i].date[1] = "api"

\* positions of run between the start of a cycle and its end
InCycle(j) == pc[j] \notin {"off", "scheduled", "finally"}

\* positions of run in step 2, once the cache has been filled or found filled
InLoad(j) ==
  pc[j] \in {"load", "getVehiclesByPlate", "getIscasByNum", "getLastVehicleHistory",
             "getLastIscaHistory", "filter", "insertVehicleHistory",
             "insertIscaHistory", "processed"}

DestinationFailures == {"SankhyaTokenError", "SankhyaError"}

UpstreamFailures == {"AtualcargoTokenError", "UpstreamError"}

(* C4: after a cycle that failed in the destination steps, on the network or
   on the session, the cache still holds the batch it held at the failure;
   the next cycle sends nothing to the provider, never enters the extract
   step, and hands that same batch to processPositions. *)
C4_CacheKeptAfterDestinationFailure ==
  \A j \in Jobs :
    last[j].outcome \in DestinationFailures =>
      /\ last[j].cache # NoCache
      /\ state[j].cache = last[j].cache
      /\ InCycle(j) =>
           /\ \A r \in sent[j] : r.to # "upstream"
           /\ pc[j] \notin {"ensureAtualcargoToken", "getPositions"}
           /\ proc[j].sankhyaUrl # "none" => proc[j].positions = last[j].cache[1]

C4_Witness ==
  \E j \in Jobs :
    /\ last[j].outcome \in DestinationFailures
    /\ pc[j] = "insertVehicleHistory"
    /\ proc[j].positions = last[j].cache[1]
    /\ Len(proc[j].newVehicleRecords) > 0

(* C5: after a cycle that failed with an error of the provider, rejected
   token or other, the cache is empty and the Atualcargo token is unset until
   the next cycle asks for them; that cycle has logged in again when it
   fetches, and has fetched when it reaches the destination steps. *)
C5_UpstreamFailureResets ==
  \A j \in Jobs :
    last[j].outcome \in UpstreamFailures =>
      /\ pc[j] \in {"finally", "scheduled", "run"} => state[j].cache = NoCache
      /\ (j = "Atualcargo" /\ pc[j] \in {"finally", "scheduled", "run", "ensureAtualcargoToken"})
           => ~token
      /\ (j = "Atualcargo" /\ pc[j] = "getPositions") => Req("login", "upstream") \in sent[j]
      /\ InLoad(j) => Req("fetch", "upstream") \in sent[j]

C5_Witness ==
  /\ last["Atualcargo"].outcome \in UpstreamFailures
  /\ pc["Atualcargo"] = "load"
  /\ Req("login", "upstream") \in sent["Atualcargo"]
  /\ Req("fetch", "upstream") \in sent["Atualcargo"]

(* C6: after a cycle whose destination steps all succeeded the cache is empty
   and the job reports idle, and the next cycle has fetched from the provider
   when it reaches the destination steps; and a step empties a filled cache
   only if it is that end of a successful cycle or the catch of an error of
   the provider. *)
C6_CacheClearedOnSuccessOnly ==
  /\ [](\A j \in Jobs :
          last[j].outcome = "ok" =>
            /\ pc[j] \in {"finally", "scheduled"} =>
                 (state[j].cache = NoCache /\ status[j] = "idle")
            /\ pc[j] = "run" => state[j].cache = NoCache
            /\ InLoad(j) => Req("fetch", "upstream") \in sent[j])
  /\ [][\A j \in Jobs :
          (state[j].cache # NoCache /\ state'[j].cache = NoCache) =>
            \/ pc[j] = "processed"
            \/ pc[j] = "catch" /\ jobError[j] \in UpstreamFailures]_vars

C6_Witness ==
  \E j \in Jobs :
    /\ last[j].outcome = "ok"
    /\ pc[j] = "load"
    /\ Req("fetch", "upstream") \in sent[j]

(* C7: with a contingency URL configured and the job on the primary URL, the
   catch of a network failure of the destination adds one to the counter;
   if that makes the counter equal to sankhyaRetryLimit the job moves to the
   contingency URL with the counter at zero, otherwise it stays on the
   primary URL; and no other step moves a job to the contingency URL. *)
C7_SwapAtRetryLimit ==
  [][\A j \in Jobs :
       (contingencyUrl /\ state[j].sankhyaUrl = "PRIMARY") =>
         LET n == state[j].primaryLoginAttempts
         IN /\ (pc[j] = "catch" /\ jobError[j] = "SankhyaError" /\ pc'[j] = "finally") =>
                 IF n + 1 = sankhyaRetryLimit
                 THEN /\ state'[j].sankhyaUrl = "CONTINGENCY"
                      /\ state'[j].primaryLoginAttempts = 0
                 ELSE /\ state'[j].sankhyaUrl = "PRIMARY"
                      /\ state'[j].primaryLoginAttempts = n + 1
            /\ state'[j].sankhyaUrl = "CONTINGENCY" =>
                 /\ pc[j] = "catch"
                 /\ jobError[j] = "SankhyaError"
                 /\ n + 1 = sankhyaRetryLimit]_vars

C7_Witness ==
  \E j \in Jobs :
    /\ sankhyaRetryLimit > 1
    /\ pc[j] = "finally"
    /\ last[j].outcome = "SankhyaError"
    /\ last[j].sankhyaUrl = "PRIMARY"
    /\ last[j].streak = sankhyaRetryLimit
    /\ state[j].sankhyaUrl = "CONTINGENCY"
    /\ state[j].primaryLoginAttempts = 0

(* C8: with a limit of 2 and a contingency URL configured, once two
   consecutive cycles have failed on the primary URL with a network failure
   of the destination, every request the next cycle sends to the destination
   goes to the contingency URL. *)
C8_ThirdAttemptOnContingency ==
  \A j \in Jobs :
    (contingencyUrl /\ sankhyaRetryLimit = 2 /\ last[j].streak = 2 /\ InCycle(j)) =>
      \A r \in sent[j] : r.to \in {"upstream", "CONTINGENCY"}

(* C9: a network failure of the destination while the job is on the
   contingency URL leaves the job on the contingency URL. *)
C9_StaysOnContingency ==
  \A j \in Jobs :
    (last[j].outcome = "SankhyaError" /\ last[j].sankhyaUrl = "CONTINGENCY"
       /\ pc[j] = "finally") =>
      state[j].sankhyaUrl = "CONTINGENCY"

(* C10: a rejected session of the destination while the job is on the
   contingency URL puts the job back on the primary URL with the counter at
   zero. *)
C10_SessionFailureReturnsToPrimary ==
  \A j \in Jobs :
    (last[j].outcome = "SankhyaTokenError" /\ last[j].sankhyaUrl = "CONTINGENCY"
       /\ pc[j] = "finally") =>
      /\ state[j].sankhyaUrl = "PRIMARY"
      /\ state[j].primaryLoginAttempts = 0

(* C11: when the catch of run handles a SankhyaTokenError (the login of the
   destination was rejected) while the job is on the primary URL, the job
   stays on the primary URL and primaryLoginAttempts keeps its value. *)
C11_RejectedLoginOnPrimaryLeavesController ==
  [][\A j \in Jobs :
       (/\ pc[j] = "catch"
        /\ pc'[j] = "finally"
        /\ jobError[j] = "SankhyaTokenError"
        /\ state[j].sankhyaUrl = "PRIMARY") =>
         /\ state'[j].sankhyaUrl = "PRIMARY"
         /\ state'[j].primaryLoginAttempts = state[j].primaryLoginAttempts]_vars

C11_Witness ==
  \E j \in Jobs :
    /\ contingencyUrl
    /\ pc[j] = "finally"
    /\ last[j].outcome = "SankhyaTokenError"
    /\ last[j].sankhyaUrl = "PRIMARY"
    /\ state[j].sankhyaUrl = "PRIMARY"
    /\ state[j].primaryLoginAttempts = 1
    /\ Req("login", "PRIMARY") \in sent[j]

(* C12: when a cycle on the primary URL fails because a write was answered
   'Nao autorizado.' (and again after the new login), the catch of run leaves
   the state of the job as it was: the same batch in the cache, the primary
   URL, and primaryLoginAttempts at the value it had before the cycle. *)
C12_SessionInvalidWriteLeavesController ==
  [][\A j \in Jobs :
       (/\ pc[j] = "catch"
        /\ pc'[j] = "finally"
        /\ proc[j].unauthorized
        /\ state[j].sankhyaUrl = "PRIMARY") =>
         /\ state'[j].cache = state[j].cache
         /\ state'[j].sankhyaUrl = "PRIMARY"
         /\ state'[j].primaryLoginAttempts = state[j].primaryLoginAttempts]_vars

(* C13: when no contingency URL is configured, the URL in use is the primary
   one in every reachable state: of each job, of app.js and of service.js. *)
C13_PrimaryWithoutContingency ==
  ~contingencyUrl =>
    /\ \A j \in Jobs : state[j].sankhyaUrl = "PRIMARY"
    /\ currentSankhyaUrl = "PRIMARY"
    /\ serviceSankhyaUrl = "PRIMARY"

(* C14: whenever a login of the destination succeeds in a cycle of a job that
   is on the primary URL, primaryLoginAttempts of the job is 0 right after
   the step that logged in. *)
C14_CounterZeroAfterLoginOnPrimary ==
  [][\A j \in Jobs :
       (/\ InLoad(j)
        /\ pc'[j] # pc[j]
        /\ state[j].sankhyaUrl = "PRIMARY"
        /\ ~jsessionid
        /\ jsessionid') =>
         state'[j].primaryLoginAttempts = 0]_vars

(* C15: at most one call of performLogin is pending at any moment, and every
   caller of makeRequest that waits for a session waits for that one. *)
C15_SingleLoginInFlight ==
  /\ Cardinality(logins.pending) <= 1
  /\ \A c \in Callers :
       callers[c].pc = "awaitLogin" => callers[c].awaits \in logins.pending

C15_Witness ==
  \E c, d \in Callers :
    /\ c # d
    /\ callers[c].pc = "awaitLogin"
    /\ callers[d].pc = "awaitLogin"
    /\ callers[c].posts # << >>
    /\ callers[c].awaits = callers[d].awaits
    /\ logins.pending = {callers[c].awaits}
    /\ logins.issued > 1

(* C16: when step 1 of the Atualcargo job begins with a token whose age does
   not exceed tokenExpirationMs, no login of the provider is called and the
   token and tokenTimestamp stay as they are; when makeRequest begins with a
   session held, no login of the destination is called and the session stays
   as it is. A login of the provider is called only when the token is unset
   or older than tokenExpirationMs, a login of the destination only when the
   session is unset or a post has just been answered 'Nao autorizado.'. *)
C16_NoLoginWhileCredentialValid ==
  [][/\ (extract.pc = "idle" /\ extract'.pc # "idle") =>
         LET valid == /\ atualcargoJob.token
                      /\ clock - atualcargoJob.tokenTimestamp <= tokenExpirationMs
         IN /\ valid => /\ extract'.pc = "getAtualcargoPositions"
                         /\ atualcargoJob' = atualcargoJob
            /\ extract'.pc = "loginAtualcargo" => ~valid
     /\ \A c \in Callers :
          (callers[c].pc = "idle" /\ callers'[c].pc # "idle"
             /\ sankhyaApi.jsessionid # 0) =>
            /\ callers'[c].pc = "posted"
            /\ sankhyaApi' = sankhyaApi
            /\ logins' = logins
     /\ logins'.issued > logins.issued =>
          \/ sankhyaApi.jsessionid = 0
          \/ \E c \in Callers : /\ callers[c].pc = "posted"
                                 /\ callers'[c].pc = "awaitLogin"]_vars

C16_Witness ==
  /\ extract.pc = "getAtualcargoPositions"
  /\ ~extract.dropped
  /\ atualcargoJob.tokenTimestamp < extract.began
  /\ callers[1].pc = "posted"
  /\ callers[1].result = "ok"
  /\ logins.issued = 1

(* C17: when step 1 of the Atualcargo job begins with a token older than
   tokenExpirationMs, the token is dropped and loginAtualcargo is awaited
   before the fetch; getAtualcargoPositions is never in flight with a token
   that was older than tokenExpirationMs when the step began. *)
C17_NoFetchWithExpiredToken ==
  /\ [](extract.pc = "getAtualcargoPositions" =>
          /\ atualcargoJob.token
          /\ extract.began - atualcargoJob.tokenTimestamp <= tokenExpirationMs)
  /\ [][(/\ extract.pc = "idle"
          /\ extract'.pc # "idle"
          /\ atualcargoJob.tokenTimestamp # 0
          /\ clock - atualcargoJob.tokenTimestamp > tokenExpirationMs) =>
           /\ atualcargoJob' = [token |-> FALSE, tokenTimestamp |-> 0]
           /\ extract'.pc = "loginAtualcargo"]_vars

C17_Witness ==
  /\ extract.pc = "getAtualcargoPositions"
  /\ extract.dropped
  /\ atualcargoJob.token
  /\ atualcargoJob.tokenTimestamp >= extract.began

(* C18: a request answered 'Nao autorizado.' clears the session, awaits a
   login and is posted once more with the session that login obtained; a
   request is posted at most twice, and whatever answers the second post,
   makeRequest returns: with the rows on status 1, with an error otherwise. *)
C18_ResentExactlyOnce ==
  /\ [](\A c \in Callers :
          /\ Len(callers[c].posts) <= 2
          /\ Len(callers[c].posts) = 2 =>
                /\ callers[c].posts[2] # 0
                /\ callers[c].posts[2] > callers[c].posts[1]
          /\ (callers[c].pc = "awaitLogin" /\ callers[c].posts # << >>) =>
                /\ sankhyaApi.jsessionid = 0
                /\ callers[c].awaits \in logins.pending)
  /\ [][\A c \in Callers :
          (/\ callers[c].pc = "posted"
           /\ Len(callers[c].posts) = 2
           /\ callers'[c] # callers[c]) =>
            /\ callers'[c].pc = "idle"
            /\ callers'[c].result \in {"ok", "SankhyaError"}]_vars

C18_Witness ==
  \E c \in Callers :
    /\ callers[c].pc = "posted"
    /\ Len(callers[c].posts) = 2
    /\ callers[c].posts[2] = sankhyaApi.jsessionid
    /\ callers[c].posts[1] # 0

(* C19: in every reachable state the Atualcargo job and the Sitrax job use
   the same destination URL and the same value of primaryLoginAttempts. *)
C19_JobsShareFailoverState ==
  /\ state["Atualcargo"].sankhyaUrl = state["Sitrax"].sankhyaUrl
  /\ state["Atualcargo"].primaryLoginAttempts = state["Sitrax"].primaryLoginAttempts

(* C20: a cycle of one job that ends in its catch leaves the cache, the
   position in the loop and the reported status of the other job as they
   were, and a failed cycle of the Sitrax job leaves the token of the
   Atualcargo job as it was. *)
C20_FailureLeavesOtherJob ==
  [][\A j \in Jobs :
       (pc[j] = "run" /\ pc'[j] = "scheduled" /\ status'[j] = "error") =>
         /\ \A k \in Jobs \ {j} : /\ state'[k].cache = state[k].cache
                                   /\ pc'[k] = pc[k]
                                   /\ status'[k] = status[k]
         /\ j # "Atualcargo" => token' = token]_vars

C20_Witness ==
  /\ status["Sitrax"] = "error"
  /\ pc["Sitrax"] = "scheduled"
  /\ state["Sitrax"].cache = NoCache
  /\ pc["Atualcargo"] = "run"
  /\ token
  /\ state["Atualcargo"].cache \notin {NoCache, Cached(<< >>)}

(* C21: a job has at most one call of loop pending or in progress: while a
   cycle of the job is in progress no timer of the job is pending, a timer is
   set only by the step that ends the cycle (the wait after an error
   included), and the cycles of the two jobs may be in progress together. *)
C21_OneCyclePerJob ==
  /\ [](\A j \in Jobs :
          /\ timers[j] <= 1
          /\ timers[j] > 0 <=> pc[j] = "scheduled")
  /\ [][\A j \in Jobs :
          timers'[j] > timers[j] => pc[j] = "run" /\ pc'[j] = "scheduled"]_vars

C21_Witness ==
  /\ \A j \in Jobs : pc[j] = "run" /\ timers[j] = 0
  /\ state["Atualcargo"].cache # NoCache
  /\ status["Sitrax"] = "running"

(* C22: the step that ends a cycle, whether run returned or its catch
   handled a failure, leaves one timer of loop pending for the job; with
   timers that fire, every job started by index.js begins cycles again and
   again. *)
C22_AlwaysRescheduled ==
  /\ [][\A j \in Jobs :
          (pc[j] = "finally" /\ pc'[j] # "finally") =>
             /\ pc'[j] = "scheduled"
             /\ timers'[j] = 1]_vars
  /\ \A j \in Jobs : []<>(j \in enabled => pc[j] = "run")

C22_Witness ==
  /\ pc["Sitrax"] = "scheduled"
  /\ status["Sitrax"] = "error"
  /\ last["Sitrax"].outcome = "SankhyaError"
  /\ timers["Sitrax"] = 1
  /\ AD_LOCATISC # << >>

(* C23: the step in which loginAtualcargo returns a new token does not issue
   the position fetch: a wait separates the login from the first fetch that
   uses its token. *)
C23_WaitAfterLogin ==
  [][(~atualcargoJob.token /\ atualcargoJob'.token) =>
       extract'.pc # "getAtualcargoPositions"]_vars

(* C24: the extract step of a cycle and the catch of an error of the
   provider (login or fetch) leave the destination URL and
   primaryLoginAttempts of the job as they were. *)
C24_UpstreamFailureKeepsEndpoint ==
  [][\A j \in Jobs :
       (\/ pc[j] \in {"run", "ensureAtualcargoToken", "getPositions"}
        \/ pc[j] = "catch" /\ jobError[j] \in UpstreamFailures) =>
          /\ state'[j].sankhyaUrl = state[j].sankhyaUrl
          /\ state'[j].primaryLoginAttempts = state[j].primaryLoginAttempts]_vars

C24_Witness ==
  \E j \in Jobs :
    /\ last[j].outcome = "UpstreamError"
    /\ pc[j] = "finally"
    /\ status[j] = "error"
    /\ state[j].sankhyaUrl = "CONTINGENCY"

(* C25: when the fetch returns nothing, the cycle ends there: the job reports
   idle, no error reaches the catch, the cache is empty as it was, the URL and
   primaryLoginAttempts of the job are untouched, and every request of the
   cycle went to the provider. *)
C25_EmptyFetchEndsIdle ==
  [][\A j \in Jobs :
       (pc[j] = "getPositions" /\ pc'[j] = "finally") =>
          /\ status'[j] = "idle"
          /\ jobError'[j] = "none"
          /\ state[j].cache = NoCache
          /\ state'[j] = state[j]
          /\ \A r \in sent'[j] : r.to = "upstream"
          /\ jsessionid' = jsessionid /\ apiClient' = apiClient
          /\ AD_LOCATCAR' = AD_LOCATCAR /\ AD_LOCATISC' = AD_LOCATISC]_vars

C25_Witness ==
  \E j \in Jobs :
    /\ pc[j] = "finally"
    /\ last[j].outcome = "idle"
    /\ Req("fetch", "upstream") \in sent[j]
    /\ state[j].cache = NoCache
    /\ state[j].sankhyaUrl = "CONTINGENCY"

(* C26: when a cycle filters and writes, the maps it uses were queried in
   that cycle: the history map of a kind holds, for every key of the table,
   the DATHOR of the row of greatest NUMREG as the table is at the write, the
   identity maps are those of the batch of this cycle, and a cycle that sent
   a write sent a query before it. *)
C26_FreshQueriesBeforeWrite ==
  \A j \in Jobs :
    LET Fresh(history, table, key) ==
          /\ DOMAIN history = {table[i][key] : i \in DOMAIN table}
          /\ \A i \in DOMAIN table :
                (\A n \in DOMAIN table : table[n][key] = table[i][key] => n <= i)
                  => history[table[i][key]] = QueryDate(table[i].DATHOR)
    IN /\ pc[j] \in {"filter", "insertVehicleHistory"} =>
            Fresh(proc[j].lastVehicleHistory, AD_LOCATCAR, "CODVEICULO")
       /\ pc[j] \in {"filter", "insertVehicleHistory", "insertIscaHistory"} =>
            /\ Fresh(proc[j].lastIscaHistory, AD_LOCATISC, "SEQUENCIA")
            /\ proc[j].positions = state[j].cache[1]
            /\ \A p \in Identifiers(proc[j].positions, "vehicle") \cap DOMAIN TGFVEI :
                  p \in DOMAIN proc[j].vehicleMap
            /\ \A n \in Identifiers(proc[j].positions, "isca") \cap DOMAIN AD_CADISCA :
                  n \in DOMAIN proc[j].iscaMap
       /\ (\E r \in sent[j] : r.kind = "write") => (\E r \in sent[j] : r.kind = "query")

C26_Witness ==
  \E j \in Jobs :
    /\ pc[j] = "insertIscaHistory"
    /\ \E r \in sent[j] : r.kind = "write"
    /\ last[j].outcome = "SankhyaError"
    /\ AD_LOCATCAR # << >>

(* C27: a call of processPositions that finds the cache and the two tables
   as the previous call of the job found them filters the same two lists of
   records, and no step of processPositions changes the cache. *)
C27_FilterRepeatable ==
  /\ [](\A j \in Jobs :
          (/\ pc[j] = "insertVehicleHistory"
           /\ last[j].filtered # << >>
           /\ last[j].cache = state[j].cache
           /\ last[j].filtered[1] = proc[j].queried) =>
             /\ proc[j].newVehicleRecords = last[j].filtered[2]
             /\ proc[j].newIscaRecords = last[j].filtered[3])
  /\ [][\A j \in Jobs : InLoad(j) /\ pc[j] # "processed" => state'[j].cache = state[j].cache]_vars

C27_Witness ==
  \E j \in Jobs :
    /\ pc[j] = "insertVehicleHistory"
    /\ last[j].filtered # << >>
    /\ last[j].cache = state[j].cache
    /\ last[j].filtered[1] = proc[j].queried
    /\ Len(proc[j].newVehicleRecords) > 0
    /\ Len(proc[j].newIscaRecords) > 0
    /\ AD_LOCATCAR # << >>

(* C28: a position whose identifier the lookup did not return is in neither
   list and in no row of the tables; the filter raises no error for it, and
   the registered positions of the same batch that are newer than the last
   row of their key are all in the list handed to the insert. *)
C28_UnmappedDropped ==
  /\ [](/\ \A i \in DOMAIN AD_LOCATCAR : AD_LOCATCAR[i].PLACA \in DOMAIN TGFVEI
        /\ \A i \in DOMAIN AD_LOCATISC : AD_LOCATISC[i].ISCA \in DOMAIN AD_CADISCA
        /\ \A j \in Jobs :
             pc[j] = "insertVehicleHistory" =>
               /\ \A i \in DOMAIN proc[j].newVehicleRecords :
                     proc[j].newVehicleRecords[i].insertValue \in DOMAIN TGFVEI
               /\ \A i \in DOMAIN proc[j].positions :
                     LET p == proc[j].positions[i]
                     IN (/\ p.type = "vehicle"
                         /\ p.identifier \in DOMAIN TGFVEI
                         /\ \A n \in DOMAIN AD_LOCATCAR :
                               AD_LOCATCAR[n].PLACA = p.identifier =>
                                 AD_LOCATCAR[n].DATHOR < p.date[2]) =>
                          \E k \in DOMAIN proc[j].newVehicleRecords :
                            /\ proc[j].newVehicleRecords[k].insertValue = p.identifier
                            /\ proc[j].newVehicleRecords[k].date = p.date)
  /\ [][\A j \in Jobs :
          pc[j] = "filter" => pc'[j] = "insertVehicleHistory" /\ jobError'[j] = "none"]_vars

C28_Witness ==
  \E j \in Jobs :
    /\ pc[j] = "processed"
    /\ \E i \in DOMAIN proc[j].positions : proc[j].positions[i].identifier = "PX"
    /\ Len(proc[j].newVehicleRecords) > 0
    /\ \E r \in sent[j] : r.kind = "write"
    /\ \E n \in DOMAIN AD_LOCATCAR :
         AD_LOCATCAR[n].date = proc[j].newVehicleRecords[1].date

(* C29: an insert that is given an empty list of records sends nothing,
   leaves its table as it is and raises no error, and a lookup that is given
   no identifier sends nothing and leaves an empty map. *)
C29_EmptyListsSendNothing ==
  [][\A j \in Jobs :
       LET quiet == /\ sent'[j] = sent[j]
                    /\ jsessionid' = jsessionid
                    /\ AD_LOCATCAR' = AD_LOCATCAR
                    /\ AD_LOCATISC' = AD_LOCATISC
       IN /\ (pc[j] = "insertVehicleHistory" /\ Len(proc[j].newVehicleRecords) = 0) =>
               quiet /\ pc'[j] = "insertIscaHistory" /\ proc'[j].failed = "none"
          /\ (pc[j] = "insertIscaHistory" /\ Len(proc[j].newIscaRecords) = 0) =>
               quiet /\ (proc[j].failed = "none" => pc'[j] = "processed")
          /\ (pc[j] = "getVehiclesByPlate" /\ Identifiers(proc[j].positions, "vehicle") = {}) =>
               quiet /\ pc'[j] = "getIscasByNum" /\ DOMAIN proc'[j].vehicleMap = {}
          /\ (pc[j] = "getIscasByNum" /\ Identifiers(proc[j].positions, "isca") = {}) =>
               quiet /\ pc'[j] = "getLastVehicleHistory" /\ DOMAIN proc'[j].iscaMap = {}]_vars

C29_Witness ==
  \E j \in Jobs :
    /\ pc[j] = "processed"
    /\ Identifiers(proc[j].positions, "isca") = {}
    /\ Identifiers(proc[j].positions, "vehicle") # {}
    /\ Len(proc[j].newVehicleRecords) = 0
    /\ \A r \in sent[j] : r.kind # "write"
    /\ \E r \in sent[j] : r.kind = "query"

(* C30: from the end of a cycle to the start of the next the job reports
   idle when the cycle ended without error and error when it ended in the
   catch of run; the job never reports running while it waits for its timer,
   and loop reports running when it starts a cycle. *)
C30_ReportedState ==
  /\ [](\A j \in Jobs :
          /\ (pc[j] \in {"finally", "scheduled"} /\ last[j].outcome # "none") =>
                status[j] = (IF last[j].outcome \in {"ok", "idle"} THEN "idle" ELSE "error")
          /\ pc[j] \in {"scheduled", "off"} => status[j] # "running")
  /\ [][\A j \in Jobs :
          /\ (pc[j] = "scheduled" /\ pc'[j] # "scheduled") => status'[j] = "running"
          /\ pc[j] = "finally" => status'[j] = status[j]]_vars

C30_Witness ==
  \E j \in Jobs :
    /\ pc[j] = "scheduled"
    /\ status[j] = "error"
    /\ last[j].outcome = "SankhyaTokenError"
    /\ state[j].cache # NoCache

(***************************************************************************)
(* C31: every record prepared for AD_LOCATCAR, and every row committed     *)
(* from it, carries IGNIT "S" when the ignition of its source position is  *)
(* "ON" and "N" for any other source value.                                *)
(***************************************************************************)
C31_IgnitionMapped ==
  /\ \A i \in DOMAIN recordsToSave :
       recordsToSave[i].IGNIT = IF recordsToSave[i].ignition = "ON" THEN "S" ELSE "N"
  /\ \A i \in DOMAIN AD_LOCATCAR :
       AD_LOCATCAR[i].IGNIT = IF AD_LOCATCAR[i].ignition = "ON" THEN "S" ELSE "N"

\* one commit wrote a row of an "ON" position and a row of an "OFF" position
C31_Witness ==
  /\ appPc = "cycleDone"
  /\ Len(recordsToSave) = 2
  /\ \E i, k \in DOMAIN recordsToSave :
       /\ recordsToSave[i].ignition = "ON" /\ recordsToSave[i].IGNIT = "S"
       /\ recordsToSave[k].ignition = "OFF" /\ recordsToSave[k].IGNIT = "N"
       /\ {RowOf(recordsToSave[i]), RowOf(recordsToSave[k])} \subseteq Range(AD_LOCATCAR)

C33_IdleEndUnsetsCache ==
  \A j \in Jobs :
    (pc[j] = "finally" /\ status[j] = "idle") => state[j].cache = NoCache

(***************************************************************************)
(* C34: every query and every write a cycle of a job has sent to the       *)
(* destination went to the URL that is the active endpoint of that job.    *)
(***************************************************************************)
C34_RequestsToActiveEndpoint ==
  \A j \in Jobs :
    (InLoad(j) \/ pc[j] = "catch") =>
      \A r \in sent[j] : r.kind \in {"query", "write"} => r.to = state[j].sankhyaUrl

(***************************************************************************)
(* C35: when a post is answered 'Nao autorizado.' and the module holds a   *)
(* session that a login obtained after that post was sent, the session is  *)
(* kept and no further login is started: the requests that were sent with  *)
(* the same invalid session share one login.                               *)
(***************************************************************************)
C35_OneLoginForStaleSession ==
  [][\A c \in Callers :
       (/\ callers[c].pc = "posted"
        /\ callers'[c].pc = "awaitLogin"
        /\ sankhyaApi.jsessionid \notin {0, callers[c].posts[Len(callers[c].posts)]})
         => /\ sankhyaApi'.jsessionid = sankhyaApi.jsessionid
            /\ logins'.issued = logins.issued]_vars

(***************************************************************************)
(* C36: when performLogin fails, rejected or on the network, the module    *)
(* holds neither a loginPromise nor a session afterwards and every caller  *)
(* that awaited the login leaves makeRequest with the failure; a request   *)
(* that then finds no session starts a new performLogin.                   *)
(***************************************************************************)
C36_FailedLoginLeavesNothing ==
  [][/\ \A n \in logins.pending :
          (n \notin logins'.pending /\ sankhyaApi'.jsessionid # n) =>
             /\ sankhyaApi'.loginPromise = 0
             /\ sankhyaApi'.jsessionid = 0
             /\ \A c \in Callers :
                  callers[c].awaits = n =>
                    /\ callers'[c].pc = "idle"
                    /\ callers'[c].result \in {"SankhyaTokenError", "SankhyaError"}
     /\ \A c \in Callers :
          (/\ callers[c].pc = "idle" /\ callers'[c].pc # "idle"
           /\ sankhyaApi.jsessionid = 0 /\ sankhyaApi.loginPromise = 0) =>
             /\ logins'.issued = logins.issued + 1
             /\ logins'.pending = {logins'.issued}
             /\ callers'[c].awaits = logins'.issued
             /\ sankhyaApi'.loginPromise = logins'.issued]_vars

\* a login that two callers awaited was rejected, both were told, and the
\* request that followed started the second login
C36_Witness ==
  /\ logins = [issued |-> 2, pending |-> {2}]
  /\ sankhyaApi.loginPromise = 2
  /\ sankhyaApi.jsessionid = 0
  /\ callers[1].result = "SankhyaTokenError" /\ callers[1].pc = "idle"
  /\ callers[2].result = "SankhyaTokenError" /\ callers[2].pc = "awaitLogin"
  /\ callers[2].awaits = 2

(***************************************************************************)
(* C37: primaryLoginAttempts of every job is at least 0 and less than      *)
(* sankhyaRetryLimit, and it is 0 while the job is on the contingency URL  *)
(* and whenever no contingency URL is configured.                          *)
(***************************************************************************)
C37_CounterBelowLimit ==
  \A j \in Jobs :
    /\ state[j].primaryLoginAttempts >= 0
    /\ state[j].primaryLoginAttempts < sankhyaRetryLimit
    /\ (state[j].sankhyaUrl = "CONTINGENCY" \/ ~contingencyUrl) =>
          state[j].primaryLoginAttempts = 0

\* a cycle on the primary URL failed on the network and left the counter one
\* below the limit
C37_Witness ==
  \E j \in Jobs :
    /\ contingencyUrl
    /\ sankhyaRetryLimit = MaxRetryLimit
    /\ pc[j] = "finally"
    /\ last[j].outcome = "SankhyaError"
    /\ state[j].sankhyaUrl = "PRIMARY"
    /\ state[j].primaryLoginAttempts = sankhyaRetryLimit - 1

(***************************************************************************)
(* C38: when the insert of one kind returned and the insert of the other   *)
(* kind was rejected, the cycle ends with the batch still in the cache,    *)
(* and the cycle that retries a batch in which no identifier occurs twice  *)
(* finds no record of the kind that was written to write again.            *)
(***************************************************************************)
C38_WrittenKindNotRewritten ==
  \A j \in Jobs :
    LET positions == proc[j].positions
        Once == \A a, b \in DOMAIN positions :
                  (/\ positions[a].type = positions[b].type
                   /\ positions[a].identifier = positions[b].identifier) => a = b
    IN /\ (/\ pc[j] = "finally"
           /\ last[j].outcome \in DestinationFailures
           /\ last[j].wrote \in {{"vehicle"}, {"isca"}}) =>
             state[j].cache = Cached(positions)
       /\ (/\ pc[j] \in {"insertVehicleHistory", "insertIscaHistory", "processed", "catch"}
           /\ last[j].outcome \in DestinationFailures
           /\ positions = last[j].cache[1]
           /\ Once) =>
             /\ "vehicle" \in last[j].wrote => proc[j].newVehicleRecords = << >>
             /\ "isca" \in last[j].wrote => proc[j].newIscaRecords = << >>

\* the cycle before wrote the vehicle record and failed on the tag; the retry
\* has filtered the same batch and is about to write the tag alone
C38_Witness ==
  \E j \in Jobs :
    /\ pc[j] = "insertIscaHistory"
    /\ last[j].outcome \in DestinationFailures
    /\ last[j].wrote = {"vehicle"}
    /\ Len(last[j].filtered[2]) > 0
    /\ state[j].cache = last[j].cache
    /\ proc[j].positions = last[j].cache[1]
    /\ proc[j].newVehicleRecords = << >>
    /\ Len(proc[j].newIscaRecords) > 0
    /\ AD_LOCATISC = << >>
    /\ \E n \in DOMAIN AD_LOCATCAR : AD_LOCATCAR[n].date = last[j].filtered[2][1].date

====
